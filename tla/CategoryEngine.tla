---------------------------- MODULE CategoryEngine ----------------------------
(***************************************************************************)
(* CategoryEngine (src/src/categories/category_engine.cpp): categories,    *)
(* rules that refer to them by id, and the category of a file, which is    *)
(* that of the first rule that matches and whose category is there.  A     *)
(* rule is the set of files it matches: by extension, by domain or by a    *)
(* regular expression (one that does not compile matches nothing).         *)
(***************************************************************************)
EXTENDS Integers, Sequences, Lists

CONSTANTS SomeFiles,       \* files to classify
          MaxCategoryId,   \* bound: ids of categories
          MaxRules         \* bound: rules

VARIABLES categories,      \* of each category its id, and when it was added
          rules,
          added            \* history: categories added so far

categoryVars == <<categories, rules, added>>

HasCategory(id) == \E i \in DOMAIN categories : categories[i].id = id

Init == categories = <<>> /\ rules = <<>> /\ added = 0

\* Mutant form of NextCategoryId: one more than there are.
CountPlusOne == Len(categories) + 1

NextCategoryId == IF categories = <<>> THEN 1 ELSE categories[Len(categories)].id + 1

NextRuleId == IF rules = <<>> THEN 1 ELSE rules[Len(rules)].id + 1

AddCategory ==
  /\ NextCategoryId <= MaxCategoryId /\ added <= MaxCategoryId
  /\ categories' = Append(categories, [id |-> NextCategoryId, born |-> added])
  /\ added' = added + 1
  /\ UNCHANGED rules

\* The rules of the category stay.
RemoveCategory(id) ==
  /\ HasCategory(id)
  /\ categories' = Without(categories, id)
  /\ UNCHANGED <<rules, added>>

\* Of any category, also of one that is not there.
AddRule(id, files) ==
  /\ Len(rules) < MaxRules /\ NextRuleId <= MaxRules + 1
  /\ rules' = Append(rules, [id |-> NextRuleId, category |-> id, matches |-> files])
  /\ UNCHANGED <<categories, added>>

RemoveRule(id) ==
  /\ \E i \in DOMAIN rules : rules[i].id = id
  /\ rules' = Without(rules, id)
  /\ UNCHANGED <<categories, added>>

Next ==
  \/ AddCategory
  \/ \E id \in 1..MaxCategoryId :
       RemoveCategory(id) \/ \E files \in SUBSET SomeFiles : AddRule(id, files)
  \/ \E id \in 1..(MaxRules + 1) : RemoveRule(id)

Matching(file) == {i \in DOMAIN rules : file \in rules[i].matches
                                        /\ HasCategory(rules[i].category)}

\* determineCategory: the id of the category, 0 for "Default".
DetermineCategory(file) ==
  IF Matching(file) = {} THEN 0
  ELSE rules[CHOOSE i \in Matching(file) : \A j \in Matching(file) : i <= j].category

\* Ids ascend along both lists, so that an id names one category and one rule, and
\* removing by id removes one, whatever was removed before (the new id is one more
\* than the last one's).
IdsAscend ==
  /\ \A i, j \in DOMAIN categories : i < j => categories[i].id < categories[j].id
  /\ \A i, j \in DOMAIN rules : i < j => rules[i].id < rules[j].id

\* A file that a rule has given a category keeps it until that category goes, or a
\* rule for it: neither a new rule nor the end of another category or rule takes it
\* away.  (A new category may: it can have the id of one that is gone, whose rules
\* then count again.)
DecisionsKept ==
  [][\A file \in SomeFiles, id \in 1..MaxCategoryId :
       DetermineCategory(file) = id /\ DetermineCategory(file)' # id =>
         \/ ~HasCategory(id)'
         \/ \E i \in DOMAIN rules : rules[i].category = id
                                   /\ \A j \in DOMAIN rules' : rules'[j] # rules[i]
         \/ Len(categories') > Len(categories)]_categoryVars
=============================================================================

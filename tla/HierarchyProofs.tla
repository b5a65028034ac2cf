---------------------------- MODULE HierarchyProofs ----------------------------
(***************************************************************************)
(* What Hierarchy implies, for every set of resources and objects and      *)
(* every graph.  A specification that implements Hierarchy has it for      *)
(* free.                                                                   *)
(***************************************************************************)
EXTENDS Hierarchy, TLAPS

TypeOK ==
  /\ given \in [Resources -> Guids \cup {NoName}]
  /\ stage \in [Resources -> {"present", "leaving", "absent"}]
  /\ name \in [Resources -> Guids \cup {NoName}]
  /\ names \in [Resources -> SUBSET Guids]
  /\ life \in [Guids -> {"unborn", "live", "gone"}]

\* No name was ever given before its object was born.
NamesAreBorn == \A r \in Resources : \A g \in names[r] : life[g] # "unborn"

Inductive == TypeOK /\ NamesAreBorn /\ EachItsOwn

\* What was never made is nobody's: the new object is the maker's only, which had
\* none that lives.
LEMMA MakeKeeps ==
  ASSUME Inductive, NEW r \in Resources, Make(r)
  PROVE  Inductive'
<1>0. TypeOK /\ UNCHANGED <<given, stage>>
  BY DEF Inductive, Make, rules
<1>1. PICK g \in Guids :
        /\ life[g] = "unborn"
        /\ life' = [life EXCEPT ![g] = "live"]
        /\ name' = [name EXCEPT ![r] = g]
        /\ names' = [names EXCEPT ![r] = @ \cup {g}]
  BY DEF Make
<1>2. ~Live(name[r])
  BY DEF Make
<1>3. /\ name'[r] = g /\ names'[r] = names[r] \cup {g}
      /\ \A q \in Resources \ {r} : name'[q] = name[q] /\ names'[q] = names[q]
      /\ \A h \in Guids \ {g} : life'[h] = life[h]
      /\ life'[g] = "live"
  BY <1>0, <1>1 DEF TypeOK
<1>4. \A q \in Resources : g \notin names[q] /\ names[q] \subseteq Guids
  BY <1>0, <1>1 DEF Inductive, NamesAreBorn, TypeOK
<1>5. TypeOK'
  BY <1>0, <1>1 DEF TypeOK
<1>6. NamesAreBorn'
  BY <1>3, <1>4 DEF Inductive, NamesAreBorn
<1>7. EachItsOwn'
  <2> SUFFICES ASSUME NEW q \in Resources, NEW h \in Made(q)'
               PROVE  /\ Live(h)' => stage'[q] # "absent" /\ name'[q] = h
                      /\ \A p \in Resources \ {q} : h \notin names'[p]
    BY DEF EachItsOwn
  <2>1. CASE h = g
    <3>1. q = r
      BY <1>3, <1>4, <2>1 DEF Made
    <3>2. stage'[r] # "absent"
      BY <1>0 DEF Make
    <3>3. QED
      BY <1>3, <1>4, <2>1, <3>1, <3>2
  <2>2. CASE h # g
    <3>1. h \in Made(q) /\ h \in Guids
      BY <1>0, <1>3, <1>4, <2>2 DEF Made
    <3>2. Live(h)' <=> Live(h)
      BY <1>3, <2>2 DEF Live
    <3>3. Live(h) => stage[q] # "absent" /\ name[q] = h
      BY <3>1 DEF Inductive, EachItsOwn
    <3>4. \A p \in Resources \ {q} : h \notin names[p]
      BY <3>1 DEF Inductive, EachItsOwn
    <3>5. q = r => ~Live(h)
      BY <1>2, <3>3
    <3>6. \A p \in Resources \ {q} : h \notin names'[p]
      BY <1>3, <2>2, <3>4
    <3>7. QED
      BY <1>0, <1>3, <3>2, <3>3, <3>5, <3>6
  <2>3. QED
    BY <2>1, <2>2
<1>8. QED
  BY <1>5, <1>6, <1>7 DEF Inductive

\* A resource comes, is asked to go, or goes when it has no object of its own.
LEMMA StageKeeps ==
  ASSUME Inductive, NoName \notin Guids, NEW r \in Resources,
         Apply(r) \/ AskForDeletion(r) \/ Abandon(r) \/ Leave(r)
  PROVE  Inductive'
<1>0. TypeOK /\ UNCHANGED <<given, names, life>>
  BY DEF Inductive, Apply, AskForDeletion, Abandon, Leave, rules, objects
<1>1. TypeOK'
  BY <1>0 DEF TypeOK, Apply, AskForDeletion, Abandon, Leave, Becomes, Nameless
<1>2. NamesAreBorn'
  BY <1>0 DEF Inductive, NamesAreBorn
<1>3. \A q \in Resources \ {r} : stage'[q] = stage[q] /\ name'[q] = name[q]
  BY <1>0 DEF TypeOK, Apply, AskForDeletion, Abandon, Leave, Becomes, Nameless
<1>4. (\E g \in Made(r) : Live(g)) => AskForDeletion(r)
  BY <1>0 DEF Inductive, EachItsOwn, TypeOK, Live, Made, Apply, Abandon, Leave
<1>5. AskForDeletion(r) => stage'[r] # "absent" /\ name'[r] = name[r]
  BY <1>0 DEF TypeOK, AskForDeletion, Becomes
<1>6. \A q \in Resources : Made(q)' = Made(q)
  BY <1>0 DEF Made
<1>7. EachItsOwn'
  BY <1>0, <1>3, <1>4, <1>5, <1>6 DEF Inductive, EachItsOwn, Live
<1>8. QED
  BY <1>1, <1>2, <1>7 DEF Inductive

\* An object goes, for its resource or by the hand of others.
LEMMA GoesKeeps ==
  ASSUME Inductive, NEW g, Goes(g), UNCHANGED <<given, stage, name, names>>
  PROVE  Inductive'
<1>1. TypeOK /\ g \in Guids /\ life' = [life EXCEPT ![g] = "gone"]
  BY DEF Inductive, Goes, Live
<1>2. TypeOK'
  BY <1>1 DEF TypeOK
<1>3. NamesAreBorn'
  BY <1>1 DEF Inductive, NamesAreBorn, TypeOK
<1>4. \A h : Live(h)' => Live(h)
  BY <1>1 DEF Live, TypeOK
<1>5. EachItsOwn'
  BY <1>4 DEF Inductive, EachItsOwn, Made
<1>6. QED
  BY <1>2, <1>3, <1>5 DEF Inductive

\* Every object that is made stays the own object of one resource until it goes.
THEOREM EachItsOwnInHierarchy ==
  ASSUME NoName \notin Guids
  PROVE  Spec => []EachItsOwn
<1>1. Init => Inductive
  <2> SUFFICES ASSUME Init
               PROVE  Inductive
    OBVIOUS
  <2>1. given \in [Resources -> Guids \cup {NoName}]
    BY DEF Init
  <2>2. \A r \in Resources : names[r] = {given[r]} \ {NoName}
    BY DEF Init
  <2>3. TypeOK
    BY <2>1 DEF Init, TypeOK
  <2>4. NamesAreBorn
    BY <2>1, <2>2 DEF Init, NamesAreBorn
  <2>5. EachItsOwn
    BY <2>2 DEF EachItsOwn, Made
  <2>6. QED
    BY <2>3, <2>4, <2>5 DEF Inductive
<1>2. Inductive /\ [Next]_vars => Inductive'
  <2> SUFFICES ASSUME Inductive, [Next]_vars
               PROVE  Inductive'
    OBVIOUS
  <2>1. ASSUME NEW r \in Resources, Delete(r) PROVE Inductive'
    BY <2>1, GoesKeeps DEF Delete, rules
  <2>2. ASSUME NEW g \in Guids, Meddle(g) PROVE Inductive'
    BY <2>2, GoesKeeps DEF Meddle, rules
  <2>3. CASE UNCHANGED vars
    BY <2>3 DEF vars, rules, objects, Inductive, TypeOK, NamesAreBorn, EachItsOwn, Made, Live
  <2>4. QED
    BY <2>1, <2>2, <2>3, MakeKeeps, StageKeeps DEF Next
<1>3. Inductive => EachItsOwn
  BY DEF Inductive
<1>4. QED
  BY <1>1, <1>2, <1>3, PTL DEF Spec
=============================================================================

--------------------------- MODULE MCReferenceChain ---------------------------
(***************************************************************************)
(* Instances of ReferenceChain for TLC: three resources of kinds that      *)
(* refer to one another as DipConnections says.                            *)
(***************************************************************************)
EXTENDS HierarchyRefinement, DipConnections, TLC

\* Every reference is to a parameter that Create sends, so that what is resolved
\* reaches DIP.
ASSUME ReferencesAreSent == \A ref \in AllReferences : ref.field \in ref.of.creates

CONSTANTS org, sub, prop, g1, g2, g3, g4, g5

\* What the kinds let point at what.
KindOf == org :> Organization @@ sub :> Organization @@ prop :> Proposition

Typed(graph) ==
  \A r \in Resources : \A p \in graph[r] :
    \E ref \in AllReferences : ref.of = KindOf[r] /\ ref.to = KindOf[p]

Chain    == org :> {} @@ sub :> {org} @@ prop :> {sub}
Selector == org :> {} @@ sub :> {} @@ prop :> {org, sub}
Cycle    == org :> {sub} @@ sub :> {org} @@ prop :> {sub}

AllGraphs == {Chain, Selector, Cycle}
ASSUME GraphsAreTyped == \A graph \in AllGraphs : Typed(graph)

Unnamed == [r \in {org, sub, prop} |-> NoName]
Imports == {Unnamed, org :> g1 @@ sub :> NoName @@ prop :> NoName}

Manifest(graph, again, without, names) ==
  [candidates |-> graph, always |-> again, optional |-> without, imported |-> names]

\* The default policies; references that are resolved anew, one of them optional;
\* and a middle that does without.
AllManifests ==
  UNION {{Manifest(graph, {}, {}, names), Manifest(graph, {}, {sub}, names),
          Manifest(graph, {org, sub, prop}, {prop}, names)} :
           graph \in {Chain, Cycle}, names \in Imports}
  \cup {Manifest(Selector, {}, {}, names) : names \in Imports}
  \cup {Manifest(Selector, {org, sub, prop}, {prop}, names) : names \in Imports \ {Unnamed}}

OnlyChain == {Manifest(Chain, {}, {}, Unnamed)}

Allow(what) == [d \in Disturbances |-> IF d \in what THEN 1 ELSE 0]

Scenarios ==
  {Allow({"vanish", "repoint"}), Allow({"remove", "recreate"}),
   [Allow({}) EXCEPT !["remove"] = 3]}
VanishOnly == {Allow({"vanish"})}
=============================================================================

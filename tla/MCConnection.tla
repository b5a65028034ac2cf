---------------------------- MODULE MCConnection ----------------------------
(***************************************************************************)
(* Instances of Connection for TLC: a Group, which needs IAM only, and a   *)
(* DeviceGroup, which needs MDM, in an installation with MDM and one that  *)
(* has only IAM.                                                           *)
(***************************************************************************)
EXTENDS Connection, DipConnections, TLC

\* Every kind has its controller, and whose requests read Secrets can read them.
ASSUME ExternalsAreComplete ==
  /\ \A kind \in AllKinds : \E e \in AllExternals : e.of = kind
  /\ \A e \in AllExternals : e.of.secrets # {} => e.readsSecrets

CONSTANTS group, devices, full, preview, a1, a2, b1, g1, g2, g3

KindOf    == group :> GroupExternal @@ devices :> DeviceGroupExternal
Clients0  == [r \in {group, devices} |-> KindOf[r].client]
Absences  == [r \in {group, devices} |-> KindOf[r].absent]

In(region, environment) == [region |-> region, environment |-> environment]

Places   == full :> In("eu", "prod") @@ preview :> In("us", "preview")
Services0 == full :> {"MDM", "Provisioning"} @@ preview :> {}
Homes    == a1 :> full @@ a2 :> full @@ b1 :> preview

\* Keys around the multiples of the line width, which is 4 here.
OneLine(n) == <<Header>> \o [i \in 1..n |-> ToString(i)] \o <<Footer>>
Keys0 == a1 :> OneLine(8) @@ a2 :> OneLine(9) @@ b1 :> OneLine(3)
Blanks(key) == <<" ">> \o key \o <<" ">>

Secret(account, place, key) ==
  [account |-> account, region |-> place.region, environment |-> place.environment,
   key |-> key]

AllSpecs == {Places[full], Places[preview], In("eu", Unset)}

ShortSecret == Secret(a1, NoPlace, Keys0[a1])
FullSecret  == Secret(a2, Places[full], Keys0[a2])

\* On one line with and without region and environment; with the key of another
\* account, with line breaks, of the other installation, with blanks, with half a
\* key, without account.
AllSecrets ==
  {ShortSecret, FullSecret, Secret(a1, Places[full], Keys0[a2]),
   Secret(a2, NoPlace, formatPrivateKey(Keys0[a2])),
   Secret(b1, NoPlace, Blanks(Keys0[b1])),
   Secret(a1, NoPlace, <<Header, "1", "2", "3", "4", "5">>),
   Secret(Unset, Places[full], <<>>)}

Scenario(spec, secret0, times) ==
  [spec |-> spec, secret |-> secret0,
   budget |-> [d \in Disturbances |-> IF d \in DOMAIN times THEN times[d] ELSE 0]]

\* Something is wrong at first; keys are rotated; all of it is removed.
AllScenarios ==
  {Scenario(Places[preview], ShortSecret, [spec |-> 1, secret |-> 1, noSecret |-> 1]),
   Scenario(Places[full], ShortSecret, [secret |-> 1, revoke |-> 1, remove |-> 1]),
   Scenario(Places[full], FullSecret, [spec |-> 1, secret |-> 1, revoke |-> 1]),
   Scenario(Places[full], FullSecret, [removeConfig |-> 1, config |-> 1, remove |-> 2])}
=============================================================================

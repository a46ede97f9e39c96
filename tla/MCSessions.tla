----------------------------- MODULE MCSessions -----------------------------
(***************************************************************************)
(* Three session files: s1 names a, s2 names b and is another harness's,   *)
(* s3 names nobody and began before a did.  v can only be opened.          *)
(***************************************************************************)
EXTENDS Sessions

CONSTANTS a, b, t, u, v, s1, s2, s3, claude, codex

MCLayout == <<t, u>>
MCOccupants == [x \in Terminals |-> IF x = v THEN None ELSE claude]

MCHarness == [s \in Sessions |-> IF s = s2 THEN codex ELSE claude]
MCNames == [s \in Sessions |-> IF s = s1 THEN {a} ELSE IF s = s2 THEN {b} ELSE {}]
MCSince == [x \in Agents |-> IF x = a THEN {s1, s2} \intersect Sessions ELSE Sessions]

=============================================================================

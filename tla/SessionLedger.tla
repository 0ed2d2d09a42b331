--------------------------- MODULE SessionLedger ----------------------------
(***************************************************************************)
(* What the user service promises about sessions: a session is issued      *)
(* once, by a login or in exchange for a live one, and ends once, by being *)
(* exchanged or logged out.  An ended session stays ended.                 *)
(***************************************************************************)
CONSTANTS
  Logins,    \* the sessions that a login issues
  Refreshes  \* the sessions that are issued in exchange for another

Sessions == Logins \cup Refreshes

VARIABLES
  live,   \* the sessions whose refresh token is good
  ended   \* the sessions that were exchanged or logged out

sessionVars == <<live, ended>>

Init == live = {} /\ ended = {}

New(s) == s \notin live \cup ended

Issue(s) ==
  /\ New(s)
  /\ live' = live \cup {s}
  /\ UNCHANGED ended

Exchange(s, t) ==
  /\ s \in live /\ New(t)
  /\ live' = (live \ {s}) \cup {t}
  /\ ended' = ended \cup {s}

End(S) ==
  /\ S \subseteq live
  /\ live' = live \ S
  /\ ended' = ended \cup S

Next ==
  \/ \E s \in Logins : Issue(s)
  \/ \E s \in Sessions, t \in Refreshes : Exchange(s, t)
  \/ \E S \in SUBSET Sessions : End(S)

Spec == Init /\ [][Next]_sessionVars
=============================================================================

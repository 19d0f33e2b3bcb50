------------------------------- MODULE PullWork -------------------------------
(***************************************************************************)
(* What a phase of `dtu pull` promises: every item of a listing is worked  *)
(* on at most once, and the phase returns; when it reports success and was *)
(* not cancelled, every item was worked on.                                *)
(***************************************************************************)
CONSTANTS Items,      \* what the device lists
          CanCancel   \* whether the user may cancel

VARIABLES cancelled, todo, busy, tried, result

workVars == <<cancelled, todo, busy, tried, result>>

Init ==
  /\ cancelled = FALSE
  /\ todo = Items
  /\ busy = {}
  /\ tried = {}
  /\ result = "none"

Cancel ==
  /\ CanCancel /\ ~cancelled /\ result = "none"
  /\ cancelled' = TRUE
  /\ UNCHANGED <<todo, busy, tried, result>>

Begin(i) ==
  /\ result = "none"
  /\ i \in todo
  /\ todo' = todo \ {i}
  /\ busy' = busy \cup {i}
  /\ UNCHANGED <<cancelled, tried, result>>

End(i) ==
  /\ i \in busy
  /\ busy' = busy \ {i}
  /\ tried' = tried \cup {i}
  /\ UNCHANGED <<cancelled, todo, result>>

Return(r) ==
  /\ result = "none"
  /\ busy = {}
  /\ r = "ok" => todo = {} \/ cancelled
  /\ result' = r
  /\ UNCHANGED <<cancelled, todo, busy, tried>>

Next ==
  \/ Cancel
  \/ \E i \in Items : Begin(i) \/ End(i)
  \/ \E r \in {"ok", "err"} : Return(r)

Spec == Init /\ [][Next]_workVars /\ <>(result # "none")
===============================================================================

------------------------------ MODULE Reconcile ------------------------------
(***************************************************************************)
(* The three-way decision of mirror/reconcile.rs, for one key: `l` is what *)
(* the local bytes are, `b` the last version agreed with the hub (the base *)
(* ledger), `r` what the hub holds now.  A digest is any value; `None` is  *)
(* the absent one.  Reading nothing but its arguments, decide() is an      *)
(* operator; the engine that acts on its answer is in MirrorSync.          *)
(***************************************************************************)
CONSTANT None            \* the digest of a file that does not exist

Acts == {"Nothing", "Push", "DeleteRemote", "Pull", "TrashLocal", "Adopt",
         "Conflict"}

\* An Action: `match` is the precondition a Push or a DeleteRemote carries,
\* None for a create-only PUT and for the actions that carry none.
Action(act, match) == [act |-> act, match |-> match]

OneSideChanged(l, b, r) ==
  IF r = b
    THEN IF l # None THEN Action("Push", b)
                     ELSE Action("DeleteRemote", b)
    ELSE IF r # None THEN Action("Pull", None)
                     ELSE Action("TrashLocal", None)

\* (Slip, for the mutation checks: a delete on the hub beats an edit here.)
DeleteWins(l, r) ==
  IF l = r         THEN Action("Adopt", None)
  ELSE IF l = None THEN Action("Pull", None)
  ELSE IF r = None THEN Action("TrashLocal", None)
                   ELSE Action("Conflict", None)

\* Edit beats delete, both ways; two different edits are a conflict.
BothSidesChanged(l, r) ==
  IF l = r         THEN Action("Adopt", None)
  ELSE IF l = None THEN Action("Pull", None)
  ELSE IF r = None THEN Action("Push", None)
                   ELSE Action("Conflict", None)

Decide(l, b, r) ==
  IF l = b /\ r = b      THEN Action("Nothing", None)
  ELSE IF l = b \/ r = b THEN OneSideChanged(l, b, r)
                         ELSE BothSidesChanged(l, r)
==============================================================================

------------------------------- MODULE MCServer -------------------------------
(***************************************************************************)
(* A small instance of Server: one slot and three requests, of which r1 is *)
(* of every kind, r2 a plain check that may take the slot, or one without  *)
(* credentials when r1 has no good ones either, and r3 a check whose list  *)
(* is truncated.                                                           *)
(***************************************************************************)
EXTENDS Server

CONSTANTS r1, r2, r3

MCRequests == {r1, r2, r3}

Kind(path, cred, size, body, cut) ==
  [path |-> path, cred |-> cred, size |-> size, body |-> body, cut |-> cut]

Plain     == Kind("/v1/check", "good", "fits", {}, FALSE)
Truncated == [Plain EXCEPT !.cut = TRUE]
Stranger  == [Plain EXCEPT !.cred = "missing"]

(* Every set of faults in a body that is read; every credential and size   *)
(* before a good body; and one that is not JSON behind each layer that     *)
(* answers before it is read.                                              *)
AnyKind ==
  {[Plain EXCEPT !.body = f] : f \in Bodies}
  \cup {Kind(p, c, s, {}, FALSE) : p \in V1Paths, c \in {"good", "missing", "invalid"},
                                  s \in {"fits", "declared", "chunked", "broken"}}
  \cup {[Stranger EXCEPT !.body = {"bad_request"}],
        [Plain EXCEPT !.body = {"bad_request"}, !.size = "declared"],
        [Plain EXCEPT !.body = {"bad_request"}, !.size = "chunked"]}
  \cup {Kind(p, "missing", "fits", {}, FALSE) : p \in Paths \ V1Paths}

MCKinds == AnyKind \cup {Truncated}

MixedInit == /\ Init
             /\ kind[r1] \in AnyKind
             /\ kind[r2] = IF kind[r1].cred = "good" THEN Plain ELSE Stranger
             /\ kind[r3] = Truncated

Mixed == MixedInit /\ [][Next]_vars /\ Fairness
=============================================================================

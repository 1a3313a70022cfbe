------------------------------ MODULE CheckInput ------------------------------
(***************************************************************************)
(* What can be wrong with the body of a check request, and in which order  *)
(* it is found, by the server (routes/check.rs) and by the command line    *)
(* (cli.rs, --json-input).  A body is the set of its faults; which fault   *)
(* is reported when there are several is decided by the order of the early *)
(* returns.                                                                *)
(***************************************************************************)
EXTENDS Naturals, FiniteSets

Faults == {"bad_request",        \* not JSON of the CheckRequest shape
           "empty_text", "invalid_mode", "empty_langs", "unknown_language",
           "too_large"}          \* folded text above MAX_NORMALIZED_BYTES

(***************************************************************************)
(* Bodies that exist: one that does not parse has no fields to be wrong,   *)
(* a list cannot be both empty and with an unknown code, and the empty     *)
(* text folds to nothing.                                                  *)
(***************************************************************************)
Bodies == {f \in SUBSET Faults :
             /\ "bad_request" \in f => f = {"bad_request"}
             /\ ~({"empty_langs", "unknown_language"} \subseteq f)
             /\ ~({"empty_text", "too_large"} \subseteq f)}

(* The first of the tests in order that the body fails, or "ok". *)
FirstOf(order, f) ==
  LET found == {i \in DOMAIN order : order[i] \in f}
  IN  IF found = {} THEN "ok"
      ELSE order[CHOOSE i \in found : \A j \in found : i <= j]

(***************************************************************************)
(* The handler: parse, empty text, [record vv_input_bytes], mode, langs,   *)
(* scan.                                                                   *)
(***************************************************************************)
BeforeInputBytes == <<"bad_request", "empty_text">>
AfterInputBytes_LangsFirst ==         \* defect: the mode is looked at last
  <<"empty_langs", "unknown_language", "invalid_mode", "too_large">>
AfterInputBytes ==
  <<"invalid_mode", "empty_langs", "unknown_language", "too_large">>

(***************************************************************************)
(* resolve_check_inputs and the scan after it, for a body given with       *)
(* --json-input: the order of the tests of the command line.               *)
(***************************************************************************)
CliTests == <<"bad_request", "empty_text", "invalid_mode", "empty_langs",
              "unknown_language", "too_large">>

(***************************************************************************)
(* error.rs: the status of each outcome.  plain_413 is the body-limit      *)
(* layer's own answer, before remap_413; not_found is the router's.        *)
(***************************************************************************)
Status(outcome) ==
  CASE outcome = "ok" -> 200
    [] outcome = "bad_request" -> 400
    [] outcome = "unauthorized" -> 401
    [] outcome = "not_found" -> 404
    [] outcome \in {"payload_too_large", "plain_413"} -> 413
    [] outcome \in {"empty_text", "invalid_mode", "empty_langs",
                    "unknown_language"} -> 422
    [] outcome = "overloaded" -> 503

(* observability.rs, classify_status. *)
classify_status(code) == CASE code \in 200 .. 299 -> "2xx"
                           [] code \in 400 .. 499 -> "4xx"
                           [] code \in 500 .. 599 -> "5xx"
                           [] OTHER -> "other"
=============================================================================

--------------------------------- MODULE Auth ---------------------------------
(***************************************************************************)
(* auth.rs, check: what the Authorization header of a request is worth,    *)
(* given the configured keys.                                              *)
(***************************************************************************)
EXTENDS Config

CONSTANT NonAscii       \* the strings that are not visible ASCII

Schemes == {"Bearer ", "bearer ", "BEARER ", ""}

(* A header that may be absent: a set of at most one. *)
Headers == {{}} \cup {{h} : h \in [scheme : Schemes, token : Entries]}

(* The whole set is compared, whichever key is the one. *)
matched_Last(api_keys, token) ==      \* defect: = for |=
  FoldLeft(LAMBDA matched, k : k = token, FALSE, api_keys)

matched(api_keys, token) ==
  FoldLeft(LAMBDA found, k : found \/ k = token, FALSE, api_keys)

check(api_keys, header) ==
  IF header = {} THEN "missing"
  ELSE IF \E h \in header : /\ h.token \notin NonAscii             \* to_str
                            /\ h.scheme \in {"Bearer ", "bearer "}
                            /\ matched(api_keys, h.token)
       THEN "good" ELSE "invalid"
=============================================================================

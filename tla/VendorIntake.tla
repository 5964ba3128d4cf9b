---------------------------- MODULE VendorIntake -----------------------------
(***************************************************************************)
(* How the log intakes of the vendors answer a POST and what the send      *)
(* functions of this repository make of the answers: three attempts, after *)
(* an answer 429 or 5xx or an urllib3 HTTPError the next one.              *)
(***************************************************************************)
EXTENDS Integers, FiniteSets, FiniteSetsExt

\* 0 is an HTTPError: the answer was lost, or the request was.
Codes == {0, 200, 202, 204, 400, 429, 503}
Success == {c \in Codes : c \in 200..299}
MaxRetries == 3

Again(code) == code \in {0, 429, 503}

\* Attempts made when the intake would answer codes[1], codes[2], ....
Attempts(codes) == Min({n \in 1..MaxRetries : ~Again(codes[n])} \cup {MaxRetries})

\* post_with_retry: the last answer counts.
PostWithRetry(codes, accepts) == codes[Attempts(codes)] \in accepts

\* Whether the intake keeps the payload: it does when it says so, and may when
\* its answer is lost or a server error.
MayKeep(codes, kept) ==
  LET answers == {codes[n] : n \in 1..Attempts(codes)}
  IN  IF answers \cap Success # {} THEN kept ELSE kept => answers \cap {0, 503} # {}

\* Everything one call of a send function can come to.
Outcomes(accepts) ==
  {o \in [ok : BOOLEAN, kept : BOOLEAN] :
     \E codes \in [1..MaxRetries -> Codes] :
        o.ok = PostWithRetry(codes, accepts) /\ MayKeep(codes, o.kept)}
OutcomesOf == [accepts \in {Success, {200}, {200, 204}} |-> Outcomes(accepts)]
=============================================================================

----------------------------- MODULE CTRSession -----------------------------
(***************************************************************************)
(* Counter mode with a history variable: the counter blocks whose          *)
(* encryption has been sent out under the current key and nonce.           *)
(***************************************************************************)
EXTENDS CTR, FiniteSets

VARIABLE used

svars == <<vars, used>>

SessionInit == Init /\ used = {}

SessionNext ==
  /\ Next
  /\ used' = IF SendLast THEN used \union {IV}
             ELSE IF key' # key \/ IV' # IV THEN {}
             ELSE used

SessionSpec == SessionInit /\ [][SessionNext]_svars /\ WF_svars(Transmit /\ SessionNext)

\* Under one key and nonce no counter block is used for a second answer until
\* all of them have been: the 128 bits count through their whole range
\* (incr_iv with split_96_32 false, and its note on 64 GiB per nonce).
CountersAreFresh ==
  state = "WRITING" /\ Cardinality(used) < Cardinality(AESBlock) => IV \notin used
=============================================================================

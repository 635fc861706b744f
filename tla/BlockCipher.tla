---------------------------- MODULE BlockCipher ----------------------------
(***************************************************************************)
(* The command interpreter with a cipher in both directions, which ECB and *)
(* CBC have: EncryptBlock and DecryptBlock work side by side all the time. *)
(***************************************************************************)
EXTENDS UARTController

CONSTANTS
  Enc(_, _),   \* EncryptBlock, settled: key, block -> block
  Dec(_, _)    \* DecryptBlock, settled: key, block -> block

ASSUME CipherAssumption ==
  \A k \in MasterKey, b \in AESBlock :
    /\ Enc(k, b) \in AESBlock
    /\ Dec(k, b) \in AESBlock
    /\ Dec(k, Enc(k, b)) = b
=============================================================================

----------------------------- MODULE GCMSession -----------------------------
(***************************************************************************)
(* GCM with a host that processes messages in the order of the standard:   *)
(* a nonce, blocks of additional data, blocks of text in one direction,    *)
(* F, and R before the next message.  The history variables hold what went *)
(* into the message, as the host sees it.                                  *)
(***************************************************************************)
EXTENDS GCM

\* A bound on the host: for each message, the blocks of additional data and of
\* text it has at most.
CONSTANT Messages

\* The standard has no longer messages either.
ASSUME MessagesAssumption ==
  Messages \in Seq([aad : 0 .. SizeWrap - 1, text : 0 .. SizeWrap - 1]) \ {<< >>}

VARIABLES
  phase,    \* how far the host is in the message
  aads,     \* the blocks of additional data
  texts,    \* the <<input, output>> blocks
  sent,     \* how many messages were begun
  start     \* what the hash T was when the message began

history == <<phase, aads, texts, sent, start>>

svars == <<vars, history>>

SessionInit ==
  Init /\ phase = "new" /\ aads = << >> /\ texts = << >> /\ sent = 1 /\ start = T

Nonce(c) ==
  /\ CmdIV(c)
  /\ phase = "new"
  /\ phase' = "header"
  /\ UNCHANGED <<aads, texts, sent, start>>

HostKey(c) == CmdKey(c) /\ phase = "new" /\ UNCHANGED history

OpenAAD(c) == CmdAAD(c) /\ phase = "header" /\ Len(aads) < Messages[sent].aad /\ UNCHANGED history

OpenBlock(c) ==
  CmdBlock(c) /\ phase \in {"header", "text"} /\ Len(texts) < Messages[sent].text /\ UNCHANGED history

Crypt(c) ==
  /\ CmdCrypt(c)
  /\ phase \in {"header", "text"} /\ Len(texts) < Messages[sent].text
  /\ phase = "text" => mode' = mode
  /\ phase' = "text"
  /\ UNCHANGED <<aads, texts, sent, start>>

HostTag(c) ==
  CmdTag(c) /\ phase = "text" /\ mode = "DECRYPT" /\ UNCHANGED history

Finish(c) ==
  /\ CmdFinalize(c)
  /\ phase \in {"header", "text"}
  /\ phase' = "done"
  /\ UNCHANGED <<aads, texts, sent, start>>

NextMessage(c) ==
  /\ CmdReset(c)
  /\ phase = "done" /\ sent < Len(Messages)
  /\ phase' = "new" /\ aads' = << >> /\ texts' = << >> /\ sent' = sent + 1 /\ start' = T'

Digit(c) ==
  /\ EnterIV(c) \/ EnterKeyDigit(c) \/ EnterBlockDigit(c) \/ EnterTag(c)
  /\ UNCHANGED history

DigitAAD(c) ==
  /\ EnterAAD(c)
  /\ aads' = IF copy_to' = "TO_NOWHERE" THEN Append(aads, AAD_block') ELSE aads
  /\ UNCHANGED <<phase, texts, sent, start>>

HostReads ==
  /\ Transmit
  /\ texts' = IF SendLast /\ phase = "text" THEN Append(texts, <<iblk, ReadBack(TX')>>)
              ELSE texts
  /\ UNCHANGED <<phase, aads, sent, start>>

SessionNext ==
  \/ \E c \in Chars :
       \/ Nonce(c) \/ HostKey(c) \/ OpenAAD(c) \/ OpenBlock(c) \/ Crypt(c)
       \/ HostTag(c) \/ Finish(c) \/ NextMessage(c) \/ Digit(c) \/ DigitAAD(c)
  \/ HostReads

SessionSpec == SessionInit /\ [][SessionNext]_svars /\ WF_svars(HostReads)

-----------------------------------------------------------------------------
(* The standard (NIST SP 800-38D), on the message as the host sees it. *)

Ciphertext(i) == texts[i][IF mode = "ENCRYPT" THEN 2 ELSE 1]

\* GHASH of the additional data, the ciphertext and the sizes, from Y0 on.
HashFrom(Y0) ==
  LET blocks == aads \o [i \in 1 .. Len(texts) |-> Ciphertext(i)]
                     \o << LenBlock(Len(aads), Len(texts)) >>
      Y[i \in 0 .. Len(blocks)] ==
        IF i = 0 THEN Y0 ELSE GMul(XorBlock(Y[i - 1], blocks[i]), H)
  IN  Y[Len(blocks)]

TagFrom(Y0) == XorBlock(HashFrom(Y0), Enc(key, J0))

\* inc32 of the standard, n times.
Increment(n) ==
  LET ctr[i \in 0 .. n] == IF i = 0 THEN J0 ELSE incr_iv(ctr[i - 1], IVNibs) IN ctr[n]

Answered == phase = "done" /\ state = "IDLE"

\* The tag that F sends after an encryption is the tag of the message, but for
\* what T held when it began: the blocks were folded into T once each and in
\* order, although that happens in three different actions, and so were the
\* sizes, which are counted apart.
TagAsBuilt ==
  Answered /\ mode = "ENCRYPT" => ReadBack(TX) = TagFrom(start)

\* F after a decryption says P exactly when the tag the host gave is that tag,
\* T having been folded from the input side of the cipher.
VerdictAsBuilt ==
  Answered /\ mode = "DECRYPT" => TX = << IF in_auth_tag = TagFrom(start) THEN "P" ELSE "F" >>

\* The tag is that of the standard, where the hash begins with zero: the branch
\* of R is to "reset everything to a known initial state."
TagIsStandard ==
  Answered /\ mode = "ENCRYPT" => ReadBack(TX) = TagFrom(ZERO_BLOCK)

\* The blocks of a message use consecutive counters that start with J0.
CountersAreConsecutive ==
  \A i \in 1 .. Len(texts) : texts[i][2] = XorBlock(texts[i][1], Enc(key, Increment(i - 1)))

\* The standard starts the blocks of a message with the counter after J0, and
\* AESIO.vhd promises "no difference from the standard" for such a nonce.
TextIsStandard ==
  \A i \in 1 .. Len(texts) : texts[i][2] = XorBlock(texts[i][1], Enc(key, Increment(i)))

\* F is always answered, after an encryption by as many characters as a block has
\* digits, after a decryption by a single one: what data_ofs starts from in
\* CmdFinalize decides it, together with the branch that ends every reply.
FinalizeIsAnswered ==
  state = "FINALIZING" ~>
    Answered /\ Len(TX) = IF mode = "ENCRYPT" THEN BlockNibs ELSE 1
=============================================================================

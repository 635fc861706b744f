---------------------------- MODULE MC_UARTFrame ----------------------------
(* The line with the numbers of the code, and some characters in ASCII. *)
EXTENDS UARTFrame

Ascii(n) == [i \in 0 .. 7 |-> (n \div 2 ^ i) % 2]

MCReply == <<Ascii(65), Ascii(55)>>   \* A7

Text == {Ascii(69), Ascii(48)}        \* E and 0
High == {Ascii(197), Ascii(176)}      \* bytes whose last data bit is one

\* 8N1, three per cent slow, exact or three per cent fast, with eight idle bits.
Spaced == [pace : {485, 500, 515}, stop : {1}, gap : {8}, bytes : {Text}]

\* 8N0 without a gap, for bytes whose last data bit is one.
HighBytes == [pace : {500}, stop : {0}, gap : {0}, bytes : {High}]

MCHosts == Spaced \union HighBytes

\* 8N0 without a gap for text, at ten clock cycles a bit.
MCTextHosts == [pace : {10}, stop : {0}, gap : {0}, bytes : {Text}]

\* The hosts of the run that passes are those that the proofs are about.
ASSUME HostsInTime == Hosts = MCTextHosts \/ \A h \in Hosts : InTime(h)
=============================================================================

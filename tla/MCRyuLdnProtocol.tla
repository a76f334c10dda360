-------------------------- MODULE MCRyuLdnProtocol --------------------------
(***************************************************************************)
(* RyuLdnProtocol for TLC: a stream with packets of every kind of size.    *)
(***************************************************************************)
EXTENDS RyuLdnProtocol

MCSize == <<2, 0, 1, 3, 2, 0, -1>>    \* the fourth is too large, the last negative
MCStart == [i \in 1 .. Packets + 1 |->
              LET Sum[k \in 0 .. Packets] ==
                     IF k = 0 THEN 0 ELSE Sum[k - 1] + HeaderSize + Data(k)
              IN  Sum[i - 1]]
=============================================================================

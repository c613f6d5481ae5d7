------------------------------- MODULE MCCodes -------------------------------
EXTENDS Codes, ReedSolomonResults

(* Codes over eight elements that correct two errors, one error and two    *)
(* erasures, and a shortened one.                                          *)
MCCodeSizes == {<<7, 3>>, <<7, 5>>, <<6, 2>>}

MCRllTable ==
  [caps \in {"NTSC", "PAL"} |->
     IF caps = "NTSC" THEN [capacity |-> 8, modulation_pad |-> 1]
                      ELSE [capacity |-> 16, modulation_pad |-> 2]]

(* Every symbol before and after the lowest, the highest and one in the    *)
(* middle of the table, and buffers of two groups of eight.                *)
Alternating(a, b, n) == [i \in 1..n |-> IF i % 2 = 1 THEN a ELSE b]
MCTexts ==
  {Alternating(a, b, 8) : a \in 0..255, b \in {0, 101, 255}}
    \union {Alternating(a, 255 - a, 16) : a \in 0..20}
=============================================================================

------------------------------- MODULE MCPanel -------------------------------
(* Small instances of Panel: readings with the widest labels and figures. *)
EXTENDS Panel

MCShort == <<10, 0, 0, 7>>
MCLong  == <<192, 168, 100, 10>>
MCAddresses == {MCShort, MCLong}

\* 192.168.100.100 has fifteen characters.
MCFullAddresses == {<<192, 168, 100, 100>>}

\* 85 is a pack too cold to charge, with bits set above the field.
MCReadings ==
    {StatusOf([chrg_stat |-> "FastCharge", faults |-> {"tmr"}, ntc |-> 85,
               power_good |-> FALSE, die |-> -999, vbat |-> 65535, top |-> 65535,
               bot |-> 65535, vbus |-> 65535, ichg |-> 65535, ibus |-> 65535])}

-----------------------------------------------------------------------------
(* wrap_message against what it says it does *)

Messages == UNION {[1..n -> {1, 8, 9, 10, 19, 20, 21, 45}] : n \in 1..4}

Prefix(words, n) == CharsTo(words)[n]

\* Every line has something on it and fits the panel, and takes as many words as do fit;
\* but when these come to exactly twenty characters and more follow, the last of them is
\* left for the next line, because the search for a space ends one character too early.
ASSUME WrapIsGreedy ==
    \A words \in Messages :
        LET fits == {n \in 1..Len(words) : Prefix(words, n) <= MessageMaxChars}
            line == SplitOff(words).line
        IN  /\ \A n \in DOMAIN WrapMessage(words) :
                   WrapMessage(words)[n] \in 1..MessageMaxChars
            /\ fits = {} => line = MessageMaxChars
            /\ fits # {} /\ (Max(fits) = Len(words) \/ Prefix(words, Max(fits)) < MessageMaxChars)
               => line = Prefix(words, Max(fits))
            /\ Max(fits \cup {0}) \in 2..Len(words) - 1 /\ Prefix(words, Max(fits)) = MessageMaxChars
               => line = Prefix(words, Max(fits) - 1)
=============================================================================

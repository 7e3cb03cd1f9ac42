---------------------------- MODULE MCStreamJob ----------------------------
(***************************************************************************)
(* Small instances of StreamJob.  Minutes are 3 units long and events stay *)
(* in two of them; the watermark has no delay, so event b closes the       *)
(* minute of events a and c.  What each run checks is said in its .cfg.    *)
(***************************************************************************)
EXTENDS StreamJob, TLC

CONSTANTS a, c, b,     \* a and c are of one minute, b of the next
          bad,         \* a record with an invalid price
          anon,        \* a record without a symbol
          btc,         \* the symbol of the others
          events       \* the events of a run

MCEvent == events

MCSymbolOf == [e \in events |-> IF e = anon THEN NoSymbol ELSE btc]

MCTimeOf == [e \in events |-> CASE e = a -> 1
                                [] e = b -> 3
                                [] OTHER -> 2]

MCMalformed == {bad} \cap events
=============================================================================

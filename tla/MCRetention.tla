---------------------------- MODULE MCRetention ----------------------------
(***************************************************************************)
(* Small instances of Retention: days of two minutes, one day kept.        *)
(***************************************************************************)
EXTENDS Retention

CONSTANTS t0, u0, t1, t2, trades

MCTrade == trades

MCMinuteOf == [t \in trades |-> CASE t \in {t0, u0} -> 0
                                  [] t = t1 -> 1
                                  [] OTHER -> 2]
=============================================================================

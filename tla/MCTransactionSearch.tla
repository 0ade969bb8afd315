------------------------ MODULE MCTransactionSearch ------------------------
(* TransactionSearch on a table in which starts and completions tie, run    *)
(* against the ids, and are missing; f1 is the caller, and is on both sides *)
(* of one transaction.                                                      *)
EXTENDS TransactionSearch

CONSTANTS f1, f2

Row(payer, payee, started, completed, correlation) ==
  [payer |-> payer, payee |-> payee, started |-> started, completed |-> completed,
   correlation |-> correlation]

MCArrival ==
  << Row(f1, f2, 2, Null, 4), Row(f2, f1, 1, 3, 6), Row(f1, f1, 2, Null, 1),
     Row(f2, f1, 3, 3, 2), Row(f2, f2, 1, Null, 5), Row(f1, f2, 1, Null, 3) >>
MCUpdate ==
  << Row(f1, f2, 2, 3, 4), Row(f2, f1, 1, 2, 6), Row(f1, f2, 2, 3, 1),
     Row(f2, f1, 1, Null, 2), Row(f2, f1, 1, 3, 5), Row(f1, f2, 2, 3, 3) >>
=============================================================================

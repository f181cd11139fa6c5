--------------------------- MODULE MCProcessors ---------------------------
(* An instance of Processors for TLC.  With two ids the third event has the   *)
(* id of the first.                                                           *)
EXTENDS Processors

Kind(l, t, s, v) == [lane |-> l, topic |-> t, size |-> s, value |-> v]

\* The user's handler, which may fail, in each lane.
RC == Kind("REALTIME", <<"custom">>, 0, 0)
TC == Kind("TRANSACTIONAL", <<"custom">>, 0, 0)
BC == Kind("BATCH", <<"custom">>, 0, 0)

\* A sensor that alerts, found by its prefix; a payment; a topic without a handler.
Alarm == Kind("REALTIME", <<"sensor/pressure", "/7">>, 1, 201)
Payment == Kind("TRANSACTIONAL", <<"payment">>, 4, 1000000)
Other == Kind("BATCH", <<"other">>, 0, 0)

\* Too hot, too short and empty: rejected by the rules or by validation.
TooHot == Kind("REALTIME", <<"sensor/temperature">>, 1, 151)
TooShort == Kind("TRANSACTIONAL", <<"payment">>, 3, 5)
Empty == Kind("BATCH", <<"sensor/pressure">>, 0, 0)

\* Each lane alone, with retries, duplicate ids and flushes; the lanes together;
\* and one rejected event in each lane.
Workloads == {<<BC, BC, BC>>, <<BC, BC, Other>>, <<TC, TC, TC>>, <<TC, BC, TC>>,
              <<Alarm, RC, BC>>, <<RC, TC, BC>>, <<Alarm, BC, BC>>, <<Payment, BC, TC>>,
              <<TooHot, TooShort, Empty>>, <<Empty, BC, TooShort>>}
===========================================================================

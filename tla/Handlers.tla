------------------------------ MODULE Handlers ------------------------------
(***************************************************************************)
(* The event handlers and their registry, include/.../processor/handler.hpp. *)
(* A topic is a sequence of pieces, so that one topic can be a prefix of     *)
(* another.  Of a body only its size and the number at its start are kept:   *)
(* its first byte for a sensor, its first four bytes for a payment.          *)
(***************************************************************************)
EXTENDS Naturals, SequencesExt

Outcome == {"SUCCESS", "FAIL", "ALERT", "DROP"}
AlertLevel == {"INFO", "WARNING", "CRITICAL", "EMERGENCY"}

\* registerDefaultHandlers(), and one handler a user of the library registered
handlers_ == [t \in {<<"sensor/temperature">>, <<"sensor/pressure">>, <<"payment">>,
                     <<"audit">>, <<"custom">>} |->
                CASE t = <<"sensor/temperature">> -> "SensorTemperatureHandler"
                  [] t = <<"sensor/pressure">>    -> "SensorPressureHandler"
                  [] t = <<"payment">>            -> "PaymentEventHandler"
                  [] t = <<"audit">>              -> "AuditEventHandler"
                  [] t = <<"custom">>             -> "custom"]

\* The registered prefixes of a topic; an empty one never beats best_len = 0.
MatchingPrefixes(topic) == {p \in DOMAIN handlers_ : p # << >> /\ IsPrefix(p, topic)}

\* getOrDefault(topic): an exact match is the longest prefix there can be
getOrDefault(topic) ==
    LET matching == MatchingPrefixes(topic)
    IN  IF matching = {} THEN "DefaultEventHandler"
        ELSE handlers_[CHOOSE p \in matching : \A q \in matching : Len(q) <= Len(p)]

Success == [outcome |-> "SUCCESS", level |-> "INFO"]
AlertAt(level) == [outcome |-> "ALERT", level |-> level]

(***************************************************************************)
(* A handler class, as what its functions say of an event: validate() and    *)
(* checkRules(), the results handle() can have, and how many bytes of the    *)
(* body the last two read.                                                   *)
(***************************************************************************)

\* The base class: the topic must not be empty, and there are no rules.
EventHandler(event) == [validate |-> event.topic # << >>, checkRules |-> TRUE,
                        handle |-> {}, reads |-> 0]

DefaultEventHandler(event) == [EventHandler(event) EXCEPT !.handle = {Success}]

SensorTemperatureHandler(event) ==
    [validate   |-> event.size > 0,
     checkRules |-> event.value <= 150,
     handle     |-> {IF event.value > 100 THEN AlertAt("CRITICAL")
                     ELSE IF event.value > 80 THEN AlertAt("WARNING")
                     ELSE Success},
     reads      |-> 1]

SensorPressureHandler(event) ==
    [EventHandler(event) EXCEPT
        !.validate = event.size > 0,
        !.handle   = {IF event.value > 200 THEN AlertAt("EMERGENCY")
                      ELSE IF event.value > 150 THEN AlertAt("WARNING")
                      ELSE Success},
        !.reads    = 1]

PaymentEventHandler(event) ==
    [validate   |-> event.size >= 4,
     checkRules |-> event.value # 0 /\ event.value <= 1000000,
     handle     |-> {Success},
     reads      |-> 4]

AuditEventHandler(event) ==
    [EventHandler(event) EXCEPT !.validate = event.size > 0, !.handle = {Success}]

\* A handler of the library's user that keeps the base class's checks and may
\* have any outcome.
CustomHandler(event) ==
    [EventHandler(event) EXCEPT !.handle = [outcome : Outcome, level : {"INFO"}]]

\* The virtual calls.
ClassOf(handler, event) ==
    CASE handler = "SensorTemperatureHandler" -> SensorTemperatureHandler(event)
      [] handler = "SensorPressureHandler" -> SensorPressureHandler(event)
      [] handler = "PaymentEventHandler" -> PaymentEventHandler(event)
      [] handler = "AuditEventHandler" -> AuditEventHandler(event)
      [] handler = "custom" -> CustomHandler(event)
      [] handler = "DefaultEventHandler" -> DefaultEventHandler(event)

validate(handler, event) == ClassOf(handler, event).validate
checkRules(handler, event) == ClassOf(handler, event).checkRules
handle(handler, event) == ClassOf(handler, event).handle
BytesRead(handler, event) == ClassOf(handler, event).reads
=============================================================================

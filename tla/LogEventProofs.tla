--------------------------- MODULE LogEventProofs ---------------------------
(***************************************************************************)
(* Proofs about LogEvent, for any threads, objects and log events: that    *)
(* the cached text of a log event never shows through.                     *)
(***************************************************************************)
EXTENDS LogEvent, TLAPS

(* The inductive invariant: what is cached, pickled and shown is the       *)
(* default text of the log event it belongs to.                            *)
IInv == TypeOK /\ CacheCoherent /\ ExplicitZoneHonoured

-----------------------------------------------------------------------------

(* A log event has a content, a timestamp, metadata and attributes.        *)
LEMMA SourceType ==
  ASSUME NEW s \in Sources
  PROVE  /\ s.content \in Contents /\ s.timestamp \in Timestamps
         /\ s.metadata \in Metadatas \union {None} /\ s.attributes \in Tables
BY LogEventAssumption DEF PossibleSources

(* The default time zone of a log event is a time zone.                    *)
LEMMA DefaultZoneType ==
  ASSUME NEW s \in Sources
  PROVE  DefaultZone(s) \in Zones
BY SourceType, LogEventAssumption DEF DefaultZone, Metadatas

(* Formatting makes a text or raises, and its text is in the time zone     *)
(* that was asked for.                                                     *)
LEMMA FormattedType ==
  ASSUME NEW e, NEW zone \in Zones
  PROVE  /\ Formatted(e, zone) \in Texts \union {Error}
         /\ Formatted(e, zone) # NoText
         /\ Formatted(e, zone) # Error => Formatted(e, zone).zone = zone
<1>1. IsAndroid(e) \in BOOLEAN
  BY DEF IsAndroid
<1>2. [zone |-> zone, attributes |-> IsAndroid(e)] \in Texts
  BY <1>1 DEF Texts
<1>. QED
  BY <1>2, LogEventAssumption DEF Formatted

(* The default text of a log event is a text or an exception.              *)
LEMMA DefaultTextType ==
  ASSUME NEW s \in Sources
  PROVE  /\ DefaultText(s) \in Texts \union {Error}
         /\ DefaultText(s) # NoText
BY DefaultZoneType, FormattedType DEF DefaultText

(* An object with all fields of its log event formats as the log event.    *)
LEMMA SameFieldsSameText ==
  ASSUME NEW e, NEW s, NEW zone,
         e.timestamp = s.timestamp, e.attributes = s.attributes,
         e.metadata = s.metadata
  PROVE  /\ Formatted(e, zone) = Formatted(s, zone)
         /\ DefaultZone(e) = DefaultZone(s)
BY DEF Formatted, IsAndroid, DefaultZone

(* A table of attributes is read back from its dictionary.                 *)
LEMMA DictReadBack ==
  ASSUME NEW table \in Tables
  PROVE  /\ AsDict(table) \in (Tables \ {"empty"}) \union {None}
         /\ FromDict(AsDict(table)) = table
BY LogEventAssumption DEF AsDict, FromDict, Tables

(* A pickled state made from a coherent object with a cached text is that  *)
(* of its log event, and has the type of states.                           *)
LEMMA StateOfCoherent ==
  ASSUME NEW e \in Events, CoherentObject(e), e.formatted # NoText
  PROVE  /\ StateOf(e) \in States
         /\ StateOf(e).source = e.source
         /\ StateOf(e) = PickledState(e.source)
<1>1. e.formatted \in Texts /\ e.formatted = DefaultText(e.source)
  BY DEF Events, CoherentObject
<1>2. AsDict(e.attributes) \in (Tables \ {"empty"}) \union {None}
  BY DictReadBack DEF Events
<1>. QED
  BY <1>1, <1>2 DEF StateOf, States, PickledState, Events, CoherentObject

(* An answer keeps the types of the answers, and adds to the default texts *)
(* shown none but the default text of its log event.                       *)
LEMMA AnswerCoherent ==
  ASSUME IInv, NEW op \in {"format", "getstate"}, NEW e \in Events,
         NEW asked \in Zones \union {None}, NEW text \in Texts \union {Error},
         Answers(op, e, asked, text),
         asked = None => text = DefaultText(e.source),
         asked # None /\ text # Error => text.zone = asked
  PROVE  /\ shown' \subseteq [source : Sources, text : Texts \union {Error}]
         /\ answer' \in [op : {"format", "getstate"}, source : Sources,
                         asked : Zones \union {None},
                         text : Texts \union {Error}]
         /\ \A a \in shown' : a.text = DefaultText(a.source)
         /\ ExplicitZoneHonoured'
<1>1. e.source \in Sources
  BY DEF Events
<1>2. answer' = [op |-> op, source |-> e.source, asked |-> asked,
                 text |-> text]
  BY DEF Answers
<1>3. /\ shown' \subseteq shown \union {[source |-> e.source, text |-> text]}
      /\ asked # None => shown' = shown
  BY DEF Answers
<1>4. shown \subseteq [source : Sources, text : Texts \union {Error}]
  BY DEF IInv, TypeOK
<1>5. shown' \subseteq [source : Sources, text : Texts \union {Error}]
  BY <1>1, <1>3, <1>4
<1>6. \A a \in shown' : a.text = DefaultText(a.source)
  BY <1>3 DEF IInv, CacheCoherent
<1>7. ExplicitZoneHonoured'
  BY <1>2 DEF ExplicitZoneHonoured
<1>. QED
  BY <1>1, <1>2, <1>5, <1>6, <1>7

-----------------------------------------------------------------------------
(* A step that fills an empty object, or empties one that no call uses,    *)
(* leaves the calls coherent.                                              *)
LEMMA ObjectReplaced ==
  ASSUME IInv, NEW o \in Objects, NEW e \in Events \union {NoObject},
         objects' = [objects EXCEPT ![o] = e],
         \A t \in Threads : calls[t] # Idle => calls[t].object # o,
         e # NoObject => CoherentObject(e),
         UNCHANGED <<calls, pickled, shown, answer>>
  PROVE  IInv'
<1>. USE DEF IInv
<1>1. \A p \in Objects : objects'[p] = IF p = o THEN e ELSE objects[p]
  BY DEF TypeOK
<1>2. \A t \in Threads : calls[t] # Idle =>
        /\ calls[t].object \in Objects
        /\ objects'[calls[t].object] = objects[calls[t].object]
  BY <1>1 DEF TypeOK, Calls
<1>3. TypeOK'
  BY <1>1, <1>2 DEF TypeOK
<1>4. CacheCoherent'
  <2>1. \A p \in Objects :
          objects'[p] # NoObject => CoherentObject(objects'[p])
    BY <1>1 DEF CacheCoherent
  <2>2. \A t \in Threads : calls'[t] # Idle =>
          CoherentCall(calls'[t], objects'[calls'[t].object])
    BY <1>2 DEF CacheCoherent
  <2>. QED
    BY <2>1, <2>2 DEF CacheCoherent
<1>5. ExplicitZoneHonoured'
  BY DEF ExplicitZoneHonoured
<1>. QED
  BY <1>3, <1>4, <1>5

(* No call uses a place that holds no object.                              *)
LEMMA FreePlaceUnused ==
  ASSUME IInv, NEW o \in Objects, objects[o] = NoObject
  PROVE  \A t \in Threads : calls[t] # Idle => calls[t].object # o
BY DEF IInv, TypeOK

(* A new object is coherent, whoever created it.                           *)
LEMMA CreateStep ==
  ASSUME IInv, NEW o \in Objects, PyLogEventInit(o) \/ CreateNewLogEvent(o)
  PROVE  IInv'
<1>1. PICK s \in Sources : objects' = [objects EXCEPT ![o] = Created(s)]
  BY DEF PyLogEventInit, CreateNewLogEvent
<1>2. Created(s) \in Events
  BY SourceType DEF Events, Created, NewObject
<1>3. CoherentObject(Created(s))
  BY DEF CoherentObject, Created, NewObject
<1>4. \A t \in Threads : calls[t] # Idle => calls[t].object # o
  BY FreePlaceUnused DEF PyLogEventInit, CreateNewLogEvent
<1>5. UNCHANGED <<calls, pickled, shown, answer>>
  BY DEF PyLogEventInit, CreateNewLogEvent
<1>. QED
  BY <1>1, <1>2, <1>3, <1>4, <1>5, ObjectReplaced

(* An unpickled object is coherent: its state was, and has a text.         *)
LEMMA SetStateStep ==
  ASSUME IInv, NEW o \in Objects, SetState(o)
  PROVE  IInv'
<1>. DEFINE Copy(s) == NewObject(s.content, s.timestamp, None,
                              FromDict(s.attributes), s.formatted, s.source)
<1>1. PICK s \in pickled : objects' = [objects EXCEPT ![o] = Copy(s)]
  BY DEF SetState
<1>. DEFINE e == Copy(s)
<1>2. s \in States /\ s = PickledState(s.source)
  BY DEF IInv, TypeOK, CacheCoherent
<1>3. e \in Events
  BY <1>2 DEF Events, States, NewObject, FromDict, Tables
<1>4. CoherentObject(e)
  <2>1. s.source \in Sources
    BY <1>2 DEF States
  <2>2. /\ s.content = s.source.content /\ s.timestamp = s.source.timestamp
        /\ s.attributes = AsDict(s.source.attributes)
        /\ s.formatted = DefaultText(s.source)
    BY <1>2 DEF PickledState
  <2>3. s.formatted # NoText
    BY <2>1, <2>2, DefaultTextType
  <2>4. FromDict(s.attributes) = s.source.attributes
    BY <2>1, <2>2, DictReadBack, SourceType
  <2>. QED
    BY <2>2, <2>3, <2>4 DEF CoherentObject, NewObject
<1>5. \A t \in Threads : calls[t] # Idle => calls[t].object # o
  BY FreePlaceUnused DEF SetState
<1>6. UNCHANGED <<calls, pickled, shown, answer>>
  BY DEF SetState
<1>. HIDE DEF e
<1>7. objects' = [objects EXCEPT ![o] = e]
  BY <1>1 DEF e
<1>. QED
  BY <1>3, <1>4, <1>5, <1>6, <1>7, ObjectReplaced

(* No call uses an object that is freed.                                   *)
LEMMA DeallocStep ==
  ASSUME IInv, NEW o \in Objects, Dealloc(o)
  PROVE  IInv'
BY ObjectReplaced DEF Dealloc

-----------------------------------------------------------------------------
(* A call that begins leaves all else alone and is coherent itself.        *)
LEMMA CallBegins ==
  ASSUME IInv, NEW t \in Threads, NEW c \in Calls,
         c # Idle, objects[c.object] # NoObject,
         CoherentCall(c, objects[c.object]),
         calls' = [calls EXCEPT ![t] = c],
         UNCHANGED <<objects, pickled, shown, answer>>
  PROVE  IInv'
<1>. USE DEF IInv
<1>1. \A u \in Threads : calls'[u] = IF u = t THEN c ELSE calls[u]
  BY DEF TypeOK
<1>2. TypeOK'
  BY <1>1 DEF TypeOK
<1>3. CacheCoherent'
  <2>1. \A u \in Threads : calls'[u] # Idle =>
          CoherentCall(calls'[u], objects'[calls'[u].object])
    BY <1>1 DEF CacheCoherent
  <2>. QED
    BY <2>1 DEF CacheCoherent
<1>4. ExplicitZoneHonoured'
  BY DEF ExplicitZoneHonoured
<1>. QED
  BY <1>2, <1>3, <1>4

(* An object is an event, coherent, with a log event behind it.            *)
LEMMA ObjectFacts ==
  ASSUME IInv, NEW o \in Objects, objects[o] # NoObject
  PROVE  /\ objects[o] \in Events /\ CoherentObject(objects[o])
         /\ objects[o].source \in Sources
BY DEF IInv, TypeOK, CacheCoherent, Events

(* The time zone a call formats in by default is a time zone, and that of  *)
(* the log event as long as no text is cached.                             *)
LEMMA ObjectZone ==
  ASSUME IInv, NEW o \in Objects, objects[o] # NoObject,
         objects[o].formatted = NoText
  PROVE  /\ DefaultZone(objects[o]) = DefaultZone(objects[o].source)
         /\ DefaultZone(objects[o]) \in Zones
<1>1. objects[o].source \in Sources
  BY ObjectFacts
<1>2. objects[o].metadata = objects[o].source.metadata
  BY ObjectFacts DEF CoherentObject
<1>. QED
  BY <1>1, <1>2, DefaultZoneType DEF DefaultZone

(* get_formatted_message answers the cached text, or begins to format.     *)
LEMMA GetFormattedMessageStep ==
  ASSUME IInv, NEW t \in Threads, NEW o \in Objects, GetFormattedMessage(t, o)
  PROVE  IInv'
<1>. DEFINE e == objects[o]
<1>1. /\ e # NoObject /\ e \in Events /\ CoherentObject(e)
      /\ UNCHANGED <<objects, pickled>>
  BY ObjectFacts DEF GetFormattedMessage
<1>2. PICK zone \in Zones \union {None} :
        \/ /\ zone = None /\ e.formatted # NoText
           /\ Answers("format", e, zone, e.formatted)
           /\ UNCHANGED calls
        \/ /\ zone # None \/ e.formatted = NoText
           /\ calls' = [calls EXCEPT ![t] =
                [op |-> "format", object |-> o, asked |-> zone,
                 zone |-> IF zone = None THEN DefaultZone(e) ELSE zone,
                 caches |-> zone = None /\ e.metadata # None]]
           /\ UNCHANGED <<shown, answer>>
  BY DEF GetFormattedMessage
<1>3. CASE /\ zone = None /\ e.formatted # NoText
           /\ Answers("format", e, zone, e.formatted)
           /\ UNCHANGED calls
  <2>1. e.formatted \in Texts \union {Error}
        /\ e.formatted = DefaultText(e.source)
    BY <1>1, <1>3 DEF Events, CoherentObject
  <2>2. /\ shown' \subseteq [source : Sources, text : Texts \union {Error}]
        /\ answer' \in [op : {"format", "getstate"}, source : Sources,
                        asked : Zones \union {None},
                        text : Texts \union {Error}]
        /\ \A a \in shown' : a.text = DefaultText(a.source)
        /\ ExplicitZoneHonoured'
    BY <1>1, <1>3, <2>1, AnswerCoherent
  <2>. QED
    BY <1>1, <1>3, <2>2 DEF IInv, TypeOK, CacheCoherent
<1>4. CASE /\ zone # None \/ e.formatted = NoText
           /\ calls' = [calls EXCEPT ![t] =
                [op |-> "format", object |-> o, asked |-> zone,
                 zone |-> IF zone = None THEN DefaultZone(e) ELSE zone,
                 caches |-> zone = None /\ e.metadata # None]]
           /\ UNCHANGED <<shown, answer>>
  <2>. DEFINE c == [op |-> "format", object |-> o, asked |-> zone,
                    zone |-> IF zone = None THEN DefaultZone(e) ELSE zone,
                    caches |-> zone = None /\ e.metadata # None]
  <2>1. zone = None => /\ DefaultZone(e) = DefaultZone(e.source)
                       /\ DefaultZone(e) \in Zones
                       /\ e.metadata = e.source.metadata
    BY <1>1, <1>4, ObjectZone DEF CoherentObject
  <2>2. c \in Calls /\ c # Idle /\ c.object = o
    BY <2>1 DEF Calls, Idle
  <2>3. CoherentCall(c, e)
    BY <2>1 DEF CoherentCall
  <2>4. calls' = [calls EXCEPT ![t] = c]
    BY <1>4
  <2>. HIDE DEF c
  <2>. QED
    BY <1>1, <1>4, <2>2, <2>3, <2>4, CallBegins
<1>. QED
  BY <1>2, <1>3, <1>4

(* __getstate__ pickles an object with a cached text, or begins to format. *)
LEMMA GetStateStep ==
  ASSUME IInv, NEW t \in Threads, NEW o \in Objects, GetState(t, o)
  PROVE  IInv'
<1>. DEFINE e == objects[o]
<1>1. /\ e # NoObject /\ e \in Events /\ CoherentObject(e)
      /\ UNCHANGED objects
  BY ObjectFacts DEF GetState
<1>2. CASE /\ e.formatted # NoText
           /\ pickled' = pickled \union {StateOf(e)}
           /\ Answers("getstate", e, None, e.formatted)
           /\ UNCHANGED calls
  <2>1. e.formatted \in Texts \union {Error}
        /\ e.formatted = DefaultText(e.source)
    BY <1>1, <1>2 DEF Events, CoherentObject
  <2>2. /\ shown' \subseteq [source : Sources, text : Texts \union {Error}]
        /\ answer' \in [op : {"format", "getstate"}, source : Sources,
                        asked : Zones \union {None},
                        text : Texts \union {Error}]
        /\ \A a \in shown' : a.text = DefaultText(a.source)
        /\ ExplicitZoneHonoured'
    BY <1>1, <1>2, <2>1, AnswerCoherent
  <2>3. pickled' \subseteq States
        /\ \A s \in pickled' : s = PickledState(s.source)
    BY <1>1, <1>2, StateOfCoherent DEF IInv, TypeOK, CacheCoherent
  <2>. QED
    BY <1>1, <1>2, <2>2, <2>3 DEF IInv, TypeOK, CacheCoherent
<1>3. CASE /\ e.formatted = NoText
           /\ calls' = [calls EXCEPT ![t] =
                [op |-> "getstate", object |-> o, asked |-> None,
                 zone |-> DefaultZone(e), caches |-> TRUE]]
           /\ UNCHANGED <<pickled, shown, answer>>
  <2>. DEFINE c == [op |-> "getstate", object |-> o, asked |-> None,
                    zone |-> DefaultZone(e), caches |-> TRUE]
  <2>1. /\ DefaultZone(e) = DefaultZone(e.source)
        /\ DefaultZone(e) \in Zones
        /\ e.metadata = e.source.metadata
    BY <1>1, <1>3, ObjectZone DEF CoherentObject
  <2>2. c \in Calls /\ c # Idle /\ c.object = o
    BY <2>1 DEF Calls, Idle
  <2>3. CoherentCall(c, e)
    BY <2>1 DEF CoherentCall
  <2>4. calls' = [calls EXCEPT ![t] = c]
    BY <1>3
  <2>. HIDE DEF c
  <2>. QED
    BY <1>1, <1>3, <2>2, <2>3, <2>4, CallBegins
<1>. QED
  BY <1>2, <1>3 DEF GetState

-----------------------------------------------------------------------------

(* The end of a call: what it caches is the default text, since a call     *)
(* with a time zone caches nothing and one without formats the default.    *)
LEMMA FormatReturnsStep ==
  ASSUME IInv, NEW t \in Threads, FormatReturns(t)
  PROVE  IInv'
<1>. DEFINE c    == calls[t]
            o    == c.object
            e    == objects[o]
            text == Formatted(e, c.zone)
            new  == Cached(c, e, text)
<1>1. /\ c \in Calls /\ c # Idle /\ o \in Objects
      /\ c.op \in {"format", "getstate"} /\ c.asked \in Zones \union {None}
      /\ c.zone \in Zones
  BY DEF FormatReturns, IInv, TypeOK, Calls
<1>2. e # NoObject /\ CoherentCall(c, e)
  BY <1>1 DEF IInv, TypeOK, CacheCoherent
<1>3. e \in Events /\ CoherentObject(e) /\ e.source \in Sources
  BY <1>1, <1>2, ObjectFacts
<1>4. /\ text \in Texts \union {Error} /\ text # NoText
      /\ text # Error => text.zone = c.zone
  BY <1>1, FormattedType
<1>5. c.asked = None => text = DefaultText(e.source)
  <2>1. SUFFICES ASSUME c.asked = None PROVE text = DefaultText(e.source)
    OBVIOUS
  <2>2. e.metadata = e.source.metadata /\ c.zone = DefaultZone(e.source)
    BY <1>2, <2>1 DEF CoherentCall
  <2>3. Formatted(e, c.zone) = Formatted(e.source, c.zone)
    BY <1>3, <2>2, SameFieldsSameText DEF CoherentObject
  <2>. QED
    BY <2>2, <2>3 DEF DefaultText
<1>6. Answers(c.op, e, c.asked, text)
  BY DEF FormatReturns
<1>7. /\ shown' \subseteq [source : Sources, text : Texts \union {Error}]
      /\ answer' \in [op : {"format", "getstate"}, source : Sources,
                      asked : Zones \union {None},
                      text : Texts \union {Error}]
      /\ \A a \in shown' : a.text = DefaultText(a.source)
      /\ ExplicitZoneHonoured'
  <2>1. c.asked # None /\ text # Error => text.zone = c.asked
    BY <1>2, <1>4 DEF CoherentCall
  <2>. HIDE DEF c, e, text
  <2>. QED
    BY <1>1, <1>3, <1>4, <1>5, <1>6, <2>1, AnswerCoherent
<1>8. \A u \in Threads : calls'[u] = IF u = t THEN Idle ELSE calls[u]
  BY DEF FormatReturns, IInv, TypeOK
<1>9. text # Error =>
        /\ new \in Events /\ new # NoObject /\ CoherentObject(new)
        /\ new.metadata = e.metadata /\ new.source = e.source
        /\ c.op = "getstate" => new.formatted # NoText
  <2>. SUFFICES ASSUME text # Error
                PROVE  /\ new \in Events /\ CoherentObject(new)
                       /\ new.metadata = e.metadata /\ new.source = e.source
                       /\ c.op = "getstate" => new.formatted # NoText
    BY LogEventAssumption
  <2>1. CASE ~c.caches
    BY <1>2, <1>3, <2>1 DEF Cached, CoherentCall
  <2>2. CASE c.caches
    <3>1. new = [e EXCEPT !.formatted = text]
      BY <2>2 DEF Cached
    <3>2. text \in Texts /\ text = DefaultText(e.source)
      BY <1>2, <1>4, <1>5, <2>2 DEF CoherentCall
    <3>. HIDE DEF text, e, c, new
    <3>3. /\ new \in Events /\ new.formatted = text
          /\ new.content = e.content /\ new.timestamp = e.timestamp
          /\ new.attributes = e.attributes /\ new.metadata = e.metadata
          /\ new.source = e.source
      BY <1>3, <3>1, <3>2 DEF Events
    <3>. QED
      BY <1>3, <1>4, <3>2, <3>3 DEF CoherentObject
  <2>. QED
    BY <2>1, <2>2
<1>10. PICK f \in Events : /\ objects' = [objects EXCEPT ![o] = f]
                           /\ CoherentObject(f) /\ f # NoObject
                           /\ f.metadata = e.metadata /\ f.source = e.source
  <2>1. CASE text = Error
    <3>1. objects' = objects
      BY <2>1 DEF FormatReturns
    <3>2. objects' = [objects EXCEPT ![o] = e]
      BY <1>1, <3>1 DEF IInv, TypeOK
    <3>. QED
      BY <1>2, <1>3, <3>2
  <2>2. CASE text # Error
    BY <1>9, <2>2 DEF FormatReturns
  <2>. QED
    BY <2>1, <2>2
<1>11. \A p \in Objects : objects'[p] = IF p = o THEN f ELSE objects[p]
  BY <1>10 DEF IInv, TypeOK
<1>12. /\ pickled' \subseteq States
       /\ \A s \in pickled' : s = PickledState(s.source)
  <2>1. CASE text # Error /\ c.op = "getstate"
    <3>1. pickled' = pickled \union {StateOf(new)}
      BY <2>1 DEF FormatReturns
    <3>2. /\ StateOf(new) \in States /\ StateOf(new).source = new.source
          /\ StateOf(new) = PickledState(new.source)
      BY <1>9, <2>1, StateOfCoherent
    <3>. QED
      BY <3>1, <3>2 DEF IInv, TypeOK, CacheCoherent
  <2>2. CASE ~(text # Error /\ c.op = "getstate")
    BY <2>2 DEF FormatReturns, IInv, TypeOK, CacheCoherent
  <2>. QED
    BY <2>1, <2>2
<1>. HIDE DEF c, o, e, text, new
<1>13. TypeOK'
  <2>1. objects' \in [Objects -> Events \union {NoObject}]
    BY <1>1, <1>10 DEF IInv, TypeOK
  <2>2. calls' \in [Threads -> Calls]
    BY DEF FormatReturns, IInv, TypeOK, Calls
  <2>3. \A u \in Threads :
          calls'[u] # Idle => objects'[calls'[u].object] # NoObject
    BY <1>8, <1>10, <1>11 DEF IInv, TypeOK, Calls
  <2>. QED
    BY <1>7, <1>12, <2>1, <2>2, <2>3 DEF TypeOK
<1>14. CacheCoherent'
  <2>1. \A p \in Objects :
          objects'[p] # NoObject => CoherentObject(objects'[p])
    BY <1>10, <1>11 DEF IInv, CacheCoherent
  <2>2. \A u \in Threads : calls'[u] # Idle =>
          CoherentCall(calls'[u], objects'[calls'[u].object])
    <3>. SUFFICES ASSUME NEW u \in Threads, calls'[u] # Idle
                  PROVE  CoherentCall(calls'[u], objects'[calls'[u].object])
      OBVIOUS
    <3>1. calls'[u] = calls[u] /\ calls[u].object \in Objects
      BY <1>8 DEF IInv, TypeOK, Calls
    <3>2. CoherentCall(calls[u], objects[calls[u].object])
      BY <1>8 DEF IInv, CacheCoherent
    <3>3. /\ objects'[calls[u].object].metadata
               = objects[calls[u].object].metadata
          /\ objects'[calls[u].object].source
               = objects[calls[u].object].source
      BY <1>10, <1>11, <3>1 DEF e
    <3>. QED
      BY <3>1, <3>2, <3>3 DEF CoherentCall
  <2>. QED
    BY <1>7, <1>12, <2>1, <2>2 DEF CacheCoherent
<1>. QED
  BY <1>7, <1>13, <1>14 DEF IInv

-----------------------------------------------------------------------------

(* At first there are no objects.                                          *)
LEMMA InitInv == Init => IInv
BY DEF Init, IInv, TypeOK, CacheCoherent, ExplicitZoneHonoured, Calls, Idle

(* Every step keeps the invariant.                                         *)
LEMMA StepInv == IInv /\ [Next]_vars => IInv'
<1>. SUFFICES ASSUME IInv, [Next]_vars PROVE IInv'
  OBVIOUS
<1>1. ASSUME NEW o \in Objects, PyLogEventInit(o) \/ CreateNewLogEvent(o)
      PROVE  IInv'
  BY <1>1, CreateStep
<1>2. ASSUME NEW o \in Objects, SetState(o) PROVE IInv'
  BY <1>2, SetStateStep
<1>3. ASSUME NEW o \in Objects, Dealloc(o) PROVE IInv'
  BY <1>3, DeallocStep
<1>4. ASSUME NEW t \in Threads, FormatReturns(t) PROVE IInv'
  BY <1>4, FormatReturnsStep
<1>5. ASSUME NEW t \in Threads, NEW o \in Objects, GetFormattedMessage(t, o)
      PROVE  IInv'
  BY <1>5, GetFormattedMessageStep
<1>6. ASSUME NEW t \in Threads, NEW o \in Objects, GetState(t, o)
      PROVE  IInv'
  BY <1>6, GetStateStep
<1>7. ASSUME UNCHANGED vars PROVE IInv'
  BY <1>7 DEF vars, IInv, TypeOK, CacheCoherent, ExplicitZoneHonoured
<1>. QED
  BY <1>1, <1>2, <1>3, <1>4, <1>5, <1>6, <1>7 DEF Next

(* The invariant holds of every state.                                     *)
LEMMA Invariance == Spec => []IInv
BY InitInv, StepInv, PTL DEF Spec

(* LogEvent objects, calls, pickled states and answers have their types;   *)
(* a call keeps its object.                                                *)
THEOREM LogEventTypeCorrect == Spec => []TypeOK
<1>1. IInv => TypeOK
  BY DEF IInv
<1>. QED
  BY <1>1, Invariance, PTL

(* Formatting a log event without a time zone always says the same of it   *)
(* and of its copies, for any number of threads and picklings: the cache   *)
(* of PyLogEvent::get_formatted_message does not show.                     *)
THEOREM DefaultTextIsOne == Spec => []OneDefaultText
<1>1. IInv => OneDefaultText
  BY DEF IInv, CacheCoherent, OneDefaultText
<1>. QED
  BY <1>1, Invariance, PTL

(* PyLogEvent_getstate gives one state for a log event, whatever was       *)
(* called before it.                                                       *)
THEOREM PickledStateIsOne == Spec => []OnePickledState
<1>1. IInv => OnePickledState
  BY DEF IInv, CacheCoherent, OnePickledState
<1>. QED
  BY <1>1, Invariance, PTL

(* A time zone given to get_formatted_message is the one used.             *)
THEOREM ExplicitZoneIsUsed == Spec => []ExplicitZoneHonoured
<1>1. IInv => ExplicitZoneHonoured
  BY DEF IInv
<1>. QED
  BY <1>1, Invariance, PTL

=============================================================================

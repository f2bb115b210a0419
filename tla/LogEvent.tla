------------------------------ MODULE LogEvent ------------------------------
(***************************************************************************)
(* Log events in Python (PyLogEvent.{hpp,cpp}, LogEvent.hpp): objects that *)
(* threads format and pickle, with the formatted timestamp each caches.    *)
(*                                                                         *)
(* Formatting a timestamp calls Python (get_formatted_timestamp), where    *)
(* another thread may run: a call that formats is two actions.  A text is  *)
(* abstracted to what its parts depend on: the time zone and whether the   *)
(* Android attributes follow.  The log message and the index, which these  *)
(* operations only copy, are one value, content.  The encoded bytes of a   *)
(* log event, read by one getter only, are left out.                       *)
(***************************************************************************)
EXTENDS FiniteSets

CONSTANTS
  Threads,       \* Python threads
  Objects,       \* places for LogEvent objects
  Sources,       \* log events that the decoder or Python creates
  Contents,      \* log messages with their index
  Timestamps,
  Zones,         \* objects a caller may pass as the time zone
  Utc,
  Representable, \* the timestamps that Python can format, by time zone
  None, NoObject, NoText, Error

Metadatas == [zone : Zones, android : BOOLEAN]

(* A table of attributes: empty, with the four values that Android logs    *)
(* are formatted with, or lacking one of them (absent, null, or of another *)
(* type).                                                                  *)
Tables == {"empty", "whole", "lacking"}

(* Python creates log events without attributes; the decoder gives each    *)
(* the metadata of its stream, which declares attributes only if Android.  *)
PossibleSources ==
  { s \in [content : Contents, timestamp : Timestamps,
           metadata : Metadatas \union {None}, attributes : Tables] :
      s.attributes # "empty" => s.metadata # None /\ s.metadata.android }

Texts == [zone : Zones, attributes : BOOLEAN]

(* The fields of a LogEvent object.                                        *)
Events ==
  [content : Contents, timestamp : Timestamps,
   metadata : Metadatas \union {None}, attributes : Tables,
   formatted : Texts \union {NoText}, source : Sources]

ASSUME LogEventAssumption ==
  /\ Sources \subseteq PossibleSources
  /\ Representable \subseteq Timestamps \X Zones
  /\ Utc \in Zones
  /\ None \notin Zones \union Metadatas \union Tables
  /\ NoObject \notin Events
  /\ NoText \notin Texts
  /\ Error \notin Texts \union {NoText}

VARIABLES
  objects,  \* the LogEvent objects; source is the log event each stands for
  calls,    \* the call each thread has in progress
  pickled,  \* history: the states __getstate__ has returned
  shown,    \* history: the answers of formatting with the default time zone
  answer    \* the last answer of any call

vars == <<objects, calls, pickled, shown, answer>>

-----------------------------------------------------------------------------
(* Formatting.                                                             *)

(* The time zone of a call that names none; None is passed on to Python,   *)
(* where it means UTC.                                                     *)
DefaultZone(e) == IF e.metadata = None THEN Utc ELSE e.metadata.zone

IsAndroid(e) ==
  e.metadata # None /\ e.metadata.android /\ e.attributes # "empty"

(* The timestamp in a time zone, with the attributes if Android, or the    *)
(* exception that either raises.                                           *)
Formatted(e, zone) ==
  IF \/ <<e.timestamp, zone>> \notin Representable
     \/ IsAndroid(e) /\ e.attributes = "lacking"
  THEN Error
  ELSE [zone |-> zone, attributes |-> IsAndroid(e)]

(* A table of attributes as a Python dictionary, None when it is empty.    *)
AsDict(table) == IF table = "empty" THEN None ELSE table
FromDict(object) == IF object = None THEN "empty" ELSE object

StateOf(e) ==
  [content |-> e.content, timestamp |-> e.timestamp,
   attributes |-> AsDict(e.attributes), formatted |-> e.formatted,
   source |-> e.source]

Idle == [op |-> "idle"]

(* A call answers: text is a text, or the exception raised.                *)
Answers(op, e, asked, text) ==
  /\ answer' = [op |-> op, source |-> e.source, asked |-> asked,
                text |-> text]
  /\ shown' = IF op = "format" /\ asked = None
              THEN shown \union {[source |-> e.source, text |-> text]}
              ELSE shown

-----------------------------------------------------------------------------
(* Objects come and go.                                                    *)

NewObject(content, timestamp, metadata, attributes, formatted, source) ==
  [content |-> content, timestamp |-> timestamp, metadata |-> metadata,
   attributes |-> attributes, formatted |-> formatted, source |-> source]

Created(s) ==
  NewObject(s.content, s.timestamp, s.metadata, s.attributes, NoText, s)

(* __init__: Python gives metadata or none, and no attributes.             *)
PyLogEventInit(o) ==
  /\ objects[o] = NoObject
  /\ \E s \in Sources :
       /\ s.attributes = "empty"
       /\ objects' = [objects EXCEPT ![o] = Created(s)]
  /\ UNCHANGED <<calls, pickled, shown, answer>>

(* The decoder gives the metadata of its stream and the attributes.        *)
CreateNewLogEvent(o) ==
  /\ objects[o] = NoObject
  /\ \E s \in Sources :
       /\ s.metadata # None
       /\ objects' = [objects EXCEPT ![o] = Created(s)]
  /\ UNCHANGED <<calls, pickled, shown, answer>>

(* mutant: unpickling computes the formatted timestamp again when needed   *)
SetStateUncached(o) ==
  /\ objects[o] = NoObject
  /\ \E s \in pickled :
       objects' = [objects EXCEPT ![o] =
         NewObject(s.content, s.timestamp, None, FromDict(s.attributes),
                   NoText, s.source)]
  /\ UNCHANGED <<calls, pickled, shown, answer>>

(* __setstate__: a new object from a state, without metadata.              *)
SetState(o) ==
  /\ objects[o] = NoObject
  /\ \E s \in pickled :
       objects' = [objects EXCEPT ![o] =
         NewObject(s.content, s.timestamp, None, FromDict(s.attributes),
                   s.formatted, s.source)]
  /\ UNCHANGED <<calls, pickled, shown, answer>>

(* mutant: an object is freed under a call that uses it                    *)
DeallocInUse(o) ==
  /\ objects[o] # NoObject
  /\ objects' = [objects EXCEPT ![o] = NoObject]
  /\ UNCHANGED <<calls, pickled, shown, answer>>

(* The last reference is dropped; a call holds one on its object.          *)
Dealloc(o) ==
  /\ objects[o] # NoObject
  /\ \A t \in Threads : calls[t] # Idle => calls[t].object # o
  /\ objects' = [objects EXCEPT ![o] = NoObject]
  /\ UNCHANGED <<calls, pickled, shown, answer>>

-----------------------------------------------------------------------------
(* get_formatted_message and __getstate__.                                 *)

(* mutant: the cached text is returned whatever the time zone asked for    *)
GetFormattedMessageCached(t, o) ==
  /\ calls[t] = Idle /\ objects[o] # NoObject
  /\ LET e == objects[o]
     IN  \E zone \in Zones \union {None} :
       \/ /\ e.formatted # NoText
          /\ Answers("format", e, zone, e.formatted)
          /\ UNCHANGED calls
       \/ /\ e.formatted = NoText
          /\ calls' = [calls EXCEPT ![t] =
               [op |-> "format", object |-> o, asked |-> zone,
                zone |-> IF zone = None THEN DefaultZone(e) ELSE zone,
                caches |-> zone = None /\ e.metadata # None]]
          /\ UNCHANGED <<shown, answer>>
  /\ UNCHANGED <<objects, pickled>>

(* get_formatted_message up to its call of Python: the cached text is the  *)
(* answer unless a time zone is given, and the text is cached only if it   *)
(* is the default of an object with metadata.                              *)
GetFormattedMessage(t, o) ==
  /\ calls[t] = Idle /\ objects[o] # NoObject
  /\ LET e == objects[o]
     IN  \E zone \in Zones \union {None} :
       \/ /\ zone = None /\ e.formatted # NoText
          /\ Answers("format", e, zone, e.formatted)
          /\ UNCHANGED calls
       \/ /\ zone # None \/ e.formatted = NoText
          /\ calls' = [calls EXCEPT ![t] =
               [op |-> "format", object |-> o, asked |-> zone,
                zone |-> IF zone = None THEN DefaultZone(e) ELSE zone,
                caches |-> zone = None /\ e.metadata # None]]
          /\ UNCHANGED <<shown, answer>>
  /\ UNCHANGED <<objects, pickled>>

(* __getstate__ up to its call of Python, made unless a text is cached.    *)
GetState(t, o) ==
  /\ calls[t] = Idle /\ objects[o] # NoObject
  /\ LET e == objects[o]
     IN  \/ /\ e.formatted # NoText
            /\ pickled' = pickled \union {StateOf(e)}
            /\ Answers("getstate", e, None, e.formatted)
            /\ UNCHANGED calls
         \/ /\ e.formatted = NoText
            /\ calls' = [calls EXCEPT ![t] =
                 [op |-> "getstate", object |-> o, asked |-> None,
                  zone |-> DefaultZone(e), caches |-> TRUE]]
            /\ UNCHANGED <<pickled, shown, answer>>
  /\ UNCHANGED objects

(* mutant: the text of a time zone given by the caller is cached too       *)
CachedAlways(c, e, text) == [e EXCEPT !.formatted = text]

(* The object after the call: its cached text is the one just made.        *)
Cached(c, e, text) ==
  IF c.caches THEN [e EXCEPT !.formatted = text] ELSE e

(* Python returns the formatted timestamp, or either it or the formatting  *)
(* of the attributes raises; the call ends.                                *)
FormatReturns(t) ==
  /\ calls[t] # Idle
  /\ LET c    == calls[t]
         e    == objects[c.object]
         text == Formatted(e, c.zone)
     IN  /\ Answers(c.op, e, c.asked, text)
         /\ \/ text = Error /\ UNCHANGED <<objects, pickled>>
            \/ /\ text # Error
               /\ objects' = [objects EXCEPT ![c.object] = Cached(c, e, text)]
               /\ pickled' = IF c.op = "getstate"
                             THEN pickled \union {StateOf(Cached(c, e, text))}
                             ELSE pickled
  /\ calls' = [calls EXCEPT ![t] = Idle]

-----------------------------------------------------------------------------

Init ==
  /\ objects = [o \in Objects |-> NoObject]
  /\ calls = [t \in Threads |-> Idle]
  /\ pickled = {} /\ shown = {}
  /\ answer = Idle

Next ==
  \/ \E o \in Objects :
       PyLogEventInit(o) \/ CreateNewLogEvent(o) \/ SetState(o) \/ Dealloc(o)
  \/ \E t \in Threads :
       \/ FormatReturns(t)
       \/ \E o \in Objects : GetFormattedMessage(t, o) \/ GetState(t, o)

Spec == Init /\ [][Next]_vars

-----------------------------------------------------------------------------
(* Properties.                                                             *)

States ==
  [content : Contents, timestamp : Timestamps,
   attributes : (Tables \ {"empty"}) \union {None},
   formatted : Texts, source : Sources]

Calls ==
  {Idle} \union [op : {"format", "getstate"}, object : Objects,
                 asked : Zones \union {None}, zone : Zones, caches : BOOLEAN]

(* Every variable has its type: in particular a pickled state has a        *)
(* formatted timestamp, and a call has an object until it ends.            *)
TypeOK ==
  /\ objects \in [Objects -> Events \union {NoObject}]
  /\ calls \in [Threads -> Calls]
  /\ \A t \in Threads : calls[t] # Idle => objects[calls[t].object] # NoObject
  /\ pickled \subseteq States
  /\ shown \subseteq [source : Sources, text : Texts \union {Error}]
  /\ answer \in {Idle} \union
       [op : {"format", "getstate"}, source : Sources,
        asked : Zones \union {None}, text : Texts \union {Error}]

(* Formatting without a time zone (get_formatted_message, str) says the    *)
(* same of a log event at all times, of all its copies: before and after   *)
(* its text is cached, whatever other calls and threads did in between,    *)
(* and after any number of picklings, which drop the metadata.             *)
OneDefaultText == \A a, b \in shown : a.source = b.source => a.text = b.text

(* __getstate__ gives the same state for a log event at all times: the     *)
(* calls made before it, and earlier picklings, do not show.               *)
OnePickledState == \A r, s \in pickled : r.source = s.source => r = s

(* A time zone given by the caller is the one the timestamp is formatted   *)
(* in, though another text is cached or was pickled.                       *)
ExplicitZoneHonoured ==
  answer # Idle /\ answer.asked # None /\ answer.text # Error
    => answer.text.zone = answer.asked

(* A log event can be pickled (README: the LogEvent class can be           *)
(* serialized by pickle).                                                  *)
EveryLogEventPickles ==
  answer # Idle /\ answer.op = "getstate" => answer.text # Error

(* What the proofs rest on.  The cached text of an object is the default   *)
(* text of its log event; an object without the metadata of its log event  *)
(* has its text cached.                                                    *)
DefaultText(s) == Formatted(s, DefaultZone(s))

CoherentObject(e) ==
  /\ e.content = e.source.content
  /\ e.timestamp = e.source.timestamp
  /\ e.attributes = e.source.attributes
  /\ e.metadata \in {None, e.source.metadata}
  /\ e.formatted \in {NoText, DefaultText(e.source)}
  /\ e.formatted = NoText => e.metadata = e.source.metadata

(* A call that will cache a text formats the default one.                  *)
CoherentCall(c, e) ==
  /\ c.op = "getstate" => c.caches /\ c.asked = None
  /\ c.asked # None => c.zone = c.asked /\ ~c.caches
  /\ c.asked = None => /\ c.zone = DefaultZone(e.source)
                       /\ e.metadata = e.source.metadata

PickledState(s) ==
  [content |-> s.content, timestamp |-> s.timestamp,
   attributes |-> AsDict(s.attributes), formatted |-> DefaultText(s),
   source |-> s]

CacheCoherent ==
  /\ \A o \in Objects : objects[o] # NoObject => CoherentObject(objects[o])
  /\ \A t \in Threads :
       calls[t] # Idle => CoherentCall(calls[t], objects[calls[t].object])
  /\ \A s \in pickled : s = PickledState(s.source)
  /\ \A a \in shown : a.text = DefaultText(a.source)

=============================================================================

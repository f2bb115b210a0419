--------------------------- MODULE MetadataObjects ---------------------------
(***************************************************************************)
(* Who owns the metadata: the reference counts of the Metadata objects     *)
(* that decode_preamble creates, which the DecoderBuffer, its caller and   *)
(* every LogEvent share, and of the time zone object that each holds       *)
(* (PyMetadata, PyDecoderBuffer::metadata_init, PyLogEvent::set_metadata). *)
(* Decoder with the references counted: its steps are those of Decoder.    *)
(*                                                                         *)
(* An object is deallocated when its count reaches 0.  Metadata objects    *)
(* are numbered as they are created.  The time zone is one object for all  *)
(* of them, and only the references taken here are counted.                *)
(***************************************************************************)
EXTENDS Decoder

CONSTANT MaxLogEvents  \* log events the client keeps at a time, at most

ASSUME MaxLogEventsAssumption == MaxLogEvents \in Nat

VARIABLES
  metaRefs,     \* metaRefs[m]: reference count of the m-th metadata object
  zoneRefs,     \* reference count of the time zone
  bufferMeta,   \* m_metadata of the decoder buffer, 0 for nullptr
  bufferAlive,  \* the decoder buffer is not deallocated
  clientMeta,   \* the metadata object the client has a reference to, or 0
  clientZone,   \* the client has a reference to the time zone
  logEvents     \* number of log events the client keeps: the buffer's
                \* metadata object is the m_py_metadata of each

objectVars == <<metaRefs, zoneRefs, bufferMeta, bufferAlive, clientMeta,
                clientZone, logEvents>>
allVars == <<vars, objectVars>>

-----------------------------------------------------------------------------
(* References taken.                                                       *)

(* create_new_from_json: a new object has one reference.                   *)
Created(refs) == Append(refs, 1)

(* init_py_timezone: the reference that get_timezone_from_timezone_id      *)
(* returned, and one more.                                                 *)
InitPyTimezone(refs) == refs + 2

(* metadata_init and set_metadata: the buffer and every log event take a   *)
(* reference of their own.                                                 *)
MetadataInitBorrows(refs, m) == refs  \* mutant: no reference is taken
MetadataInit(refs, m) == [refs EXCEPT ![m] = @ + 1]
SetMetadata(refs, m) == [refs EXCEPT ![m] = @ + 1]

ObjectsInit ==
  /\ Init
  /\ metaRefs = <<>> /\ zoneRefs = 0
  /\ bufferMeta = 0 /\ bufferAlive = TRUE
  /\ clientMeta = 0 /\ clientZone = FALSE /\ logEvents = 0

(* decode_preamble has created a metadata object and consumed its bytes.   *)
(* The buffer and the caller share it, or, when the buffer has one, nobody *)
(* has it: metadata_init's failure returns without releasing it.           *)
CreatesMetadata ==
  /\ call.op = "preamble"
  /\ numConsumed' > numConsumed
  /\ \E i \in DOMAIN Units : Ready(i) /\ Units[i].kind = "preamble"
CountMetadata ==
  LET m == Len(metaRefs) + 1
  IN  /\ zoneRefs' = InitPyTimezone(zoneRefs)
      /\ \/ /\ hasMetadata
            /\ metaRefs' = Created(metaRefs)
            /\ UNCHANGED <<bufferMeta, clientMeta>>
         \/ /\ ~hasMetadata
            /\ metaRefs' = MetadataInit(Created(metaRefs), m)
            /\ bufferMeta' = m
            /\ clientMeta' = m
      /\ UNCHANGED <<bufferAlive, clientZone, logEvents>>

(* decode returns a log event, which the client keeps or drops at once.    *)
CountLogEvent ==
  /\ \/ /\ logEvents < MaxLogEvents
        /\ metaRefs' = SetMetadata(metaRefs, bufferMeta)
        /\ logEvents' = logEvents + 1
     \/ UNCHANGED <<metaRefs, logEvents>>
  /\ UNCHANGED <<zoneRefs, bufferMeta, bufferAlive, clientMeta, clientZone>>

(* A step of the decoder or of its client, with the references it takes.   *)
CountedStep ==
  /\ bufferAlive
  /\ Next
  /\ IF CreatesMetadata THEN CountMetadata
     ELSE IF delivered' # delivered THEN CountLogEvent
     ELSE UNCHANGED objectVars

(* get_timezone of a metadata object the client has.                       *)
GetTimezone ==
  /\ call = Idle
  /\ clientMeta # 0 /\ ~clientZone
  /\ clientZone' = TRUE
  /\ zoneRefs' = zoneRefs + 1
  /\ UNCHANGED vars
  /\ UNCHANGED <<metaRefs, bufferMeta, bufferAlive, clientMeta, logEvents>>

-----------------------------------------------------------------------------
(* References released.                                                    *)

(* Py_DECREF of m: with its last reference goes m, and with it one         *)
(* reference to the time zone (clean).                                     *)
ReleaseLeakingZone(m) ==  \* mutant: clean forgets the time zone
  /\ metaRefs' = [metaRefs EXCEPT ![m] = @ - 1]
  /\ UNCHANGED zoneRefs
Release(m) ==
  /\ metaRefs' = [metaRefs EXCEPT ![m] = @ - 1]
  /\ zoneRefs' = zoneRefs - (IF metaRefs'[m] = 0 THEN 1 ELSE 0)

(* The client drops its metadata, the time zone, or a log event.           *)
DropMetadata ==
  /\ call = Idle
  /\ clientMeta # 0
  /\ Release(clientMeta)
  /\ clientMeta' = 0
  /\ UNCHANGED vars
  /\ UNCHANGED <<bufferMeta, bufferAlive, clientZone, logEvents>>
DropTimezone ==
  /\ call = Idle
  /\ clientZone
  /\ clientZone' = FALSE
  /\ zoneRefs' = zoneRefs - 1
  /\ UNCHANGED vars
  /\ UNCHANGED <<metaRefs, bufferMeta, bufferAlive, clientMeta, logEvents>>
DropLogEvent ==
  /\ call = Idle
  /\ logEvents > 0
  /\ Release(bufferMeta)
  /\ logEvents' = logEvents - 1
  /\ UNCHANGED vars
  /\ UNCHANGED <<bufferMeta, bufferAlive, clientMeta, clientZone>>

(* It drops the decoder buffer, when no call has it.                       *)
DropBuffer ==
  /\ call = Idle
  /\ bufferAlive
  /\ bufferAlive' = FALSE
  /\ IF bufferMeta = 0 THEN UNCHANGED <<metaRefs, zoneRefs>>
     ELSE Release(bufferMeta)
  /\ UNCHANGED vars
  /\ UNCHANGED <<bufferMeta, clientMeta, clientZone, logEvents>>

ObjectsNext ==
  \/ CountedStep
  \/ GetTimezone \/ DropMetadata \/ DropTimezone
  \/ DropLogEvent \/ DropBuffer

ObjectsSpec == ObjectsInit /\ [][ObjectsNext]_allVars
ObjectsFairSpec == ObjectsSpec /\ WF_vars(DecoderStep \/ ReadFails)

-----------------------------------------------------------------------------
(* Properties.                                                             *)

(* The references to m that the objects still alive hold.                  *)
Holders(m) ==
  (IF bufferAlive /\ bufferMeta = m THEN 1 ELSE 0)
    + (IF clientMeta = m THEN 1 ELSE 0)
    + (IF bufferMeta = m THEN logEvents ELSE 0)

Alive == {m \in DOMAIN metaRefs : metaRefs[m] > 0}

(* No metadata object is deallocated while the buffer, the client or a log *)
(* event points to it, and the time zone is not while a metadata object or *)
(* the client does, whichever of them is dropped first.                    *)
ObjectsAlive ==
  /\ \A m \in DOMAIN metaRefs : Holders(m) > 0 => metaRefs[m] > 0
  /\ Alive # {} \/ clientZone => zoneRefs > 0

(* What is never given back: the metadata object of a preamble that comes  *)
(* second, and one reference to the time zone for every metadata object    *)
(* ever created.  Every other reference is released with its holder.       *)
OnlyTheseLeak ==
  /\ \A m \in DOMAIN metaRefs :
       metaRefs[m] = Holders(m) + (IF m = bufferMeta THEN 0 ELSE 1)
  /\ zoneRefs = Cardinality(Alive) + Len(metaRefs)
                  + (IF clientZone THEN 1 ELSE 0)

=============================================================================

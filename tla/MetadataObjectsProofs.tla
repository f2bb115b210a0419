------------------------ MODULE MetadataObjectsProofs ------------------------
(***************************************************************************)
(* Proofs about MetadataObjects, for any stream, any client and any number *)
(* of log events kept: counting references leaves the decoder as it is, no *)
(* object goes before its last holder, and only what OnlyTheseLeak names   *)
(* is never released.                                                      *)
(***************************************************************************)
EXTENDS MetadataObjects, DecoderProofs, FiniteSetTheorems

(* What the variables hold.                                                *)
ObjectsTypes ==
  /\ metaRefs \in Seq(Nat)
  /\ zoneRefs \in Int
  /\ bufferMeta \in 0 .. Len(metaRefs)
  /\ bufferAlive \in BOOLEAN
  /\ clientMeta \in {0, bufferMeta}
  /\ clientZone \in BOOLEAN
  /\ logEvents \in Nat

(* The buffer's metadata object is there once its metadata is set, and no  *)
(* metadata object is created before.                                      *)
BufferMeta ==
  /\ hasMetadata \in BOOLEAN
  /\ hasMetadata <=> bufferMeta # 0
  /\ bufferMeta = 0 => metaRefs = <<>> /\ logEvents = 0
  /\ call.op = "log_event" => hasMetadata

(* The inductive invariant.                                                *)
OInv == ObjectsTypes /\ BufferMeta /\ OnlyTheseLeak

-----------------------------------------------------------------------------
(* The decoder is not changed by counting.                                 *)

LEMMA ObjectsStepIsDecoderStep == [ObjectsNext]_allVars => [Next]_vars
BY DEF ObjectsNext, CountedStep, GetTimezone, DropMetadata, DropTimezone,
       DropLogEvent, DropBuffer, allVars

(* The specification with references counted implements the one without.   *)
THEOREM ObjectsIsDecoder == ObjectsSpec => Spec
<1>1. ObjectsInit => Init
  BY DEF ObjectsInit
<1> QED
  BY <1>1, ObjectsStepIsDecoderStep, PTL DEF ObjectsSpec, Spec

(* So whatever holds of every state of the decoder holds here too: the log *)
(* events come in the order of the stream, and the index is the position.  *)
THEOREM CountedDeliveryInOrder ==
  ASSUME CopyOrders = {"forward"}
  PROVE  ObjectsSpec => [](DeliveredInOrder /\ IndexIsPosition)
BY ObjectsIsDecoder, DeliveryInOrder, IndexStaysPosition, PTL

(* Nor can dropping objects make a call of the decoder loop.               *)
THEOREM CountedCallsProgress == ObjectsSpec => CallsProgress
BY ObjectsIsDecoder, CallsMakeProgress, PTL

(* Where the decoder stands in the buffer.                                 *)
LEMMA NumConsumedType == ASSUME BufP!TypeInv PROVE numConsumed \in Nat
BY DEF BufP!TypeInv, BufP!TypeOK

(* decode_preamble's second loop: a metadata object is created when, and   *)
(* only when, a preamble is consumed, which sets the metadata if need be.  *)
LEMMA PreambleCreates ==
  ASSUME BufP!TypeInv, hasMetadata \in BOOLEAN, DecodePreamble
  PROVE  /\ hasMetadata' = (hasMetadata \/ CreatesMetadata)
         /\ call'.op # "log_event"
         /\ delivered' = delivered
  <1> USE NumConsumedType
  <1>1. call.op = "preamble"
    BY DEF DecodePreamble
  <1>2. ASSUME NEW i \in DOMAIN Units, Ready(i), Buf!Commit(Units[i].len),
               \/ /\ Units[i].kind = "preamble"
                  /\ ~hasMetadata
                  /\ hasMetadata' = TRUE
                  /\ Return(Gave("metadata"))
               \/ /\ \/ Units[i].kind = "bad_preamble"
                     \/ Units[i].kind = "preamble" /\ hasMetadata
                  /\ Return(Gave("runtime_error"))
                  /\ UNCHANGED hasMetadata,
               delivered' = delivered
        PROVE  /\ hasMetadata' = (hasMetadata \/ CreatesMetadata)
               /\ call'.op # "log_event"
               /\ delivered' = delivered
    <2>1. numConsumed' > numConsumed
      <3>1. Units[i].len \in Nat \ {0} /\ Units[i].len <= Buf!NumUnconsumed
        BY <1>2, UnitFacts DEF Ready
      <3>2. Buf!NumUnconsumed \in Int
        BY DEF Buf!NumUnconsumed, BufP!TypeInv, BufP!TypeOK
      <3>3. numConsumed' = numConsumed + Units[i].len
        BY <1>2, <3>1, <3>2 DEF Buf!Commit
      <3> QED BY <3>1, <3>3
    <2>2. CreatesMetadata <=> Units[i].kind = "preamble"
      <3>1. ASSUME NEW j \in DOMAIN Units, Ready(j) PROVE i = j
        <4>1. Start[i] = Start[j]
          BY <1>2, <3>1 DEF Ready, FrontUnits
        <4> QED BY <4>1, UnitFacts, StartInjective
      <3> QED BY <1>1, <1>2, <2>1, <3>1 DEF CreatesMetadata
    <2>3. call'.op # "log_event"
      BY <1>2 DEF Return, Idle
    <2> QED BY <1>2, <2>2, <2>3
  <1>3. CASE /\ UNCHANGED <<hasMetadata, delivered, numConsumed>>
             /\ call'.op # "log_event"
    BY <1>3 DEF CreatesMetadata
  <1>4. CASE RaiseDecodeError
    BY <1>3, <1>4 DEF RaiseDecodeError, Return, Idle, bufVars
  <1>5. CASE TryRead
    <2>1. UNCHANGED <<hasMetadata, delivered>> /\ call'.op # "log_event"
      BY <1>1, <1>5 DEF TryRead, Continue, decVars, Return, Idle
    <2>2. numConsumed' \in {0, numConsumed}
      BY <1>5 DEF TryRead, Buf!BeginRead, Buf!GrowFails
    <2> QED BY <2>1, <2>2 DEF CreatesMetadata
  <1> QED BY <1>2, <1>4, <1>5 DEF DecodePreamble

(* When a step of the decoder creates a metadata object, sets its          *)
(* metadata or returns a log event.                                        *)
LEMMA MetadataSteps ==
  ASSUME BufP!TypeInv, call \in Calls, hasMetadata \in BOOLEAN,
         call.op = "log_event" => hasMetadata, Next
  PROVE  /\ hasMetadata' = (hasMetadata \/ CreatesMetadata)
         /\ call'.op = "log_event" => hasMetadata'
         /\ delivered' # delivered => hasMetadata
  <1>1. CASE ClientStep
    <2>1. UNCHANGED <<hasMetadata, delivered, numConsumed>>
      BY <1>1
      DEF ClientStep, CallDecodePreamble, CallDecodeNextLogEvent, bufVars
    <2>2. call'.op = "log_event" => hasMetadata
      BY <1>1
      DEF ClientStep, CallDecodePreamble, CallDecodeNextLogEvent, Idle,
          Return, MayCall
    <2>3. ~CreatesMetadata
      BY <2>1, NumConsumedType DEF CreatesMetadata
    <2> QED BY <2>1, <2>2, <2>3
  <1>2. CASE DecodeEncodingType
    <2>1. UNCHANGED <<hasMetadata, delivered>> /\ ~CreatesMetadata
      BY <1>2
      DEF DecodeEncodingType, RaiseDecodeError, TryRead, Continue, decVars,
          CreatesMetadata
    <2>2. call'.op # "log_event"
      BY <1>2
      DEF DecodeEncodingType, RaiseDecodeError, TryRead, Continue, decVars,
          Return, Idle, Calls
    <2> QED BY <2>1, <2>2
  <1>3. CASE DecodePreamble
    BY <1>3, PreambleCreates
  <1>4. CASE DecodeLogEvent
    <2>1. hasMetadata /\ hasMetadata' = hasMetadata
      BY <1>4
      DEF DecodeLogEvent, RaiseDecodeError, TryRead, Continue, decVars
    <2> QED BY <1>4, <2>1 DEF DecodeLogEvent, CreatesMetadata
  <1>5. CASE ReadReturns \/ ReadFails \/ StreamGrows
    <2>1. UNCHANGED <<hasMetadata, delivered, numConsumed>>
      BY <1>5
      DEF ReadReturns, ReadFails, StreamGrows, Buf!ReadReturns,
          Buf!ReadFails, Buf!StreamGrows, Return, Continue, decVars
    <2>2. call'.op = "log_event" => call.op = "log_event"
      BY <1>5
      DEF ReadReturns, ReadFails, StreamGrows, Return, Continue, decVars,
          Idle
    <2>3. ~CreatesMetadata
      BY <2>1, NumConsumedType DEF CreatesMetadata
    <2> QED BY <2>1, <2>2, <2>3
  <1> QED BY <1>1, <1>2, <1>3, <1>4, <1>5 DEF Next, DecoderStep

-----------------------------------------------------------------------------
(* What taking and releasing references does to the objects alive.         *)
Living(refs) == {m \in DOMAIN refs : refs[m] > 0}

(* There are finitely many of them.                                        *)
LEMMA LivingFinite ==
  ASSUME NEW refs \in Seq(Nat)
  PROVE  /\ IsFiniteSet(Living(refs))
         /\ Cardinality(Living(refs)) \in Nat
  <1>1. IsFiniteSet(1 .. Len(refs))
    BY FS_Interval
  <1>2. Living(refs) \in SUBSET (1 .. Len(refs))
    BY DEF Living
  <1> QED BY <1>1, <1>2, FS_Subset, FS_CardinalityType

(* create_new_from_json: one more.                                         *)
LEMMA LivingCreated ==
  ASSUME NEW refs \in Seq(Nat)
  PROVE  /\ Created(refs) \in Seq(Nat)
         /\ Len(Created(refs)) = Len(refs) + 1
         /\ \A m \in 1 .. Len(refs) : Created(refs)[m] = refs[m]
         /\ Created(refs)[Len(refs) + 1] = 1
         /\ Cardinality(Living(Created(refs)))
              = Cardinality(Living(refs)) + 1
  <1>1. /\ Created(refs) \in Seq(Nat)
        /\ Len(Created(refs)) = Len(refs) + 1
        /\ \A m \in 1 .. Len(refs) : Created(refs)[m] = refs[m]
        /\ Created(refs)[Len(refs) + 1] = 1
    BY DEF Created
  <1>2. Living(Created(refs)) = Living(refs) \cup {Len(refs) + 1}
    BY <1>1 DEF Living
  <1>3. Len(refs) + 1 \notin Living(refs)
    BY DEF Living
  <1> QED BY <1>1, <1>2, <1>3, LivingFinite, FS_AddElement

(* Py_INCREF of a living object.                                           *)
LEMMA LivingTaken ==
  ASSUME NEW refs \in Seq(Nat), NEW m \in 1 .. Len(refs), refs[m] > 0
  PROVE  LET taken == [refs EXCEPT ![m] = @ + 1]
         IN
         /\ taken \in Seq(Nat)
         /\ Len(taken) = Len(refs)
         /\ taken[m] = refs[m] + 1
         /\ \A k \in 1 .. Len(refs) : k # m => taken[k] = refs[k]
         /\ Living(taken) = Living(refs)
  <1> DEFINE taken == [refs EXCEPT ![m] = @ + 1]
  <1>1. /\ taken \in Seq(Nat)
        /\ Len(taken) = Len(refs)
        /\ taken[m] = refs[m] + 1
        /\ \A k \in 1 .. Len(refs) : k # m => taken[k] = refs[k]
    OBVIOUS
  <1> HIDE DEF taken
  <1>2. Living(taken) = Living(refs)
    <2>1. DOMAIN taken = 1 .. Len(refs) /\ DOMAIN refs = 1 .. Len(refs)
      BY <1>1
    <2>2. ASSUME NEW k \in 1 .. Len(refs)
          PROVE  taken[k] > 0 <=> refs[k] > 0
      <3>1. refs[k] \in Nat /\ refs[m] \in Nat
        OBVIOUS
      <3> QED BY <1>1, <3>1
    <2> QED BY <2>1, <2>2 DEF Living
  <1> QED BY <1>1, <1>2 DEF taken

(* Py_DECREF of a living object.                                           *)
LEMMA LivingReleased ==
  ASSUME NEW refs \in Seq(Nat), NEW m \in 1 .. Len(refs), refs[m] > 0
  PROVE  LET left == [refs EXCEPT ![m] = @ - 1]
         IN
         /\ left \in Seq(Nat)
         /\ Len(left) = Len(refs)
         /\ left[m] = refs[m] - 1
         /\ \A k \in 1 .. Len(refs) : k # m => left[k] = refs[k]
         /\ Cardinality(Living(left))
              = Cardinality(Living(refs)) - (IF left[m] = 0 THEN 1 ELSE 0)
  <1> DEFINE left == [refs EXCEPT ![m] = @ - 1]
  <1>1. /\ left \in Seq(Nat)
        /\ Len(left) = Len(refs)
        /\ left[m] = refs[m] - 1
        /\ \A k \in 1 .. Len(refs) : k # m => left[k] = refs[k]
    OBVIOUS
  <1> HIDE DEF left
  <1>2. Cardinality(Living(refs)) \in Nat
    BY LivingFinite
  <1>3. CASE left[m] = 0
    <2>1. Living(left) = Living(refs) \ {m} /\ m \in Living(refs)
      BY <1>1, <1>3 DEF Living
    <2>2. Cardinality(Living(left)) = Cardinality(Living(refs)) - 1
      BY <2>1, LivingFinite, FS_RemoveElement
    <2> QED BY <1>1, <1>3, <2>2 DEF left
  <1>4. CASE left[m] # 0
    <2>1. Living(left) = Living(refs)
      <3>1. DOMAIN left = 1 .. Len(refs) /\ DOMAIN refs = 1 .. Len(refs)
        BY <1>1
      <3>2. ASSUME NEW k \in 1 .. Len(refs)
            PROVE  left[k] > 0 <=> refs[k] > 0
        <4>1. refs[k] \in Nat /\ left[k] \in Nat
          BY <1>1
        <4> QED BY <1>1, <1>4, <4>1
      <3> QED BY <3>1, <3>2 DEF Living
    <2> QED BY <1>1, <1>2, <1>4, <2>1 DEF left
  <1> QED BY <1>3, <1>4

-----------------------------------------------------------------------------
(* The two parts of OnlyTheseLeak.                                         *)
MetaCounts ==
  \A m \in 1 .. Len(metaRefs) :
    metaRefs[m] = Holders(m) + (IF m = bufferMeta THEN 0 ELSE 1)
ZoneCount ==
  zoneRefs = Cardinality(Living(metaRefs)) + Len(metaRefs)
               + (IF clientZone THEN 1 ELSE 0)

(* They are the parts of OnlyTheseLeak, before a step and after it.        *)
LEMMA CountsAreParts ==
  /\ ObjectsTypes => (OnlyTheseLeak <=> MetaCounts /\ ZoneCount)
  /\ ObjectsTypes' => (OnlyTheseLeak' <=> MetaCounts' /\ ZoneCount')
  <1>1. Alive = Living(metaRefs) /\ Alive' = Living(metaRefs')
    BY DEF Alive, Living
  <1>2. ObjectsTypes => DOMAIN metaRefs = 1 .. Len(metaRefs)
    BY DEF ObjectsTypes
  <1>3. ObjectsTypes' => DOMAIN metaRefs' = 1 .. Len(metaRefs')
    BY DEF ObjectsTypes
  <1> QED
    BY <1>1, <1>2, <1>3 DEF OnlyTheseLeak, MetaCounts, ZoneCount

(* The references to an object are counted in natural numbers.             *)
LEMMA HoldersType ==
  ASSUME ObjectsTypes, NEW m PROVE Holders(m) \in Nat
BY DEF ObjectsTypes, Holders

(* The initial states.                                                     *)
LEMMA InitOInv == ObjectsInit => OInv
  <1> SUFFICES ASSUME ObjectsInit PROVE OInv
    OBVIOUS
  <1>1. ObjectsTypes
    <2>1. metaRefs \in Seq(Nat) /\ Len(metaRefs) = 0
      BY DEF ObjectsInit
    <2>2. bufferAlive \in BOOLEAN /\ clientZone \in BOOLEAN
      BY Zenon DEF ObjectsInit
    <2> QED BY <2>1, <2>2 DEF ObjectsInit, ObjectsTypes
  <1>2. BufferMeta
    BY DEF ObjectsInit, BufferMeta, Init, Idle
  <1>3. Living(metaRefs) = {} /\ Len(metaRefs) = 0
    BY DEF ObjectsInit, Living
  <1>4. MetaCounts /\ ZoneCount
    BY <1>3, FS_EmptySet DEF ObjectsInit, MetaCounts, ZoneCount
  <1> QED BY <1>1, <1>2, <1>4, CountsAreParts DEF OInv

(* A holder of the buffer's metadata object gives its reference back.      *)
LEMMA HolderReleases ==
  ASSUME OInv, bufferMeta # 0, Holders(bufferMeta) > 0, Release(bufferMeta)
  PROVE  /\ metaRefs' \in Seq(Nat)
         /\ Len(metaRefs') = Len(metaRefs)
         /\ metaRefs'[bufferMeta] = Holders(bufferMeta) - 1
         /\ \A k \in 1 .. Len(metaRefs) :
              k # bufferMeta => metaRefs'[k] = metaRefs[k]
         /\ zoneRefs' = Cardinality(Living(metaRefs')) + Len(metaRefs)
                          + (IF clientZone THEN 1 ELSE 0)
  <1>1. /\ metaRefs \in Seq(Nat) /\ bufferMeta \in 1 .. Len(metaRefs)
        /\ MetaCounts /\ ZoneCount
    BY CountsAreParts DEF OInv, ObjectsTypes
  <1>2. Holders(bufferMeta) \in Nat
    BY HoldersType DEF OInv
  <1>3. metaRefs[bufferMeta] = Holders(bufferMeta)
    BY <1>1, <1>2 DEF MetaCounts
  <1>4. metaRefs' = [metaRefs EXCEPT ![bufferMeta] = @ - 1]
    BY DEF Release
  <1>5. metaRefs[bufferMeta] > 0
    BY <1>3
  <1> DEFINE left == [metaRefs EXCEPT ![bufferMeta] = @ - 1]
  <1>6. /\ left \in Seq(Nat)
        /\ Len(left) = Len(metaRefs)
        /\ left[bufferMeta] = metaRefs[bufferMeta] - 1
        /\ \A k \in 1 .. Len(metaRefs) :
             k # bufferMeta => left[k] = metaRefs[k]
        /\ Cardinality(Living(left))
             = Cardinality(Living(metaRefs))
                 - (IF left[bufferMeta] = 0 THEN 1 ELSE 0)
    BY <1>1, <1>5, LivingReleased
  <1> HIDE DEF left
  <1>7. /\ metaRefs' \in Seq(Nat)
        /\ Len(metaRefs') = Len(metaRefs)
        /\ metaRefs'[bufferMeta] = metaRefs[bufferMeta] - 1
        /\ \A k \in 1 .. Len(metaRefs) :
             k # bufferMeta => metaRefs'[k] = metaRefs[k]
        /\ Cardinality(Living(metaRefs'))
             = Cardinality(Living(metaRefs))
                 - (IF metaRefs'[bufferMeta] = 0 THEN 1 ELSE 0)
    <2>1. metaRefs' = left
      BY <1>4 DEF left
    <2> QED BY <1>6, <2>1
  <1>8. Cardinality(Living(metaRefs)) \in Nat
    BY <1>1, LivingFinite
  <1>9. zoneRefs' = zoneRefs - (IF metaRefs'[bufferMeta] = 0 THEN 1 ELSE 0)
    BY DEF Release
  <1>10. zoneRefs' = Cardinality(Living(metaRefs')) + Len(metaRefs)
                      + (IF clientZone THEN 1 ELSE 0)
    BY <1>1, <1>7, <1>8, <1>9 DEF ZoneCount
  <1> QED BY <1>3, <1>7, <1>10

(* The client drops a metadata object, a log event or the buffer: the      *)
(* buffer's metadata object has one holder less.                           *)
LEMMA DropKeeps ==
  ASSUME OInv, bufferMeta # 0, Holders(bufferMeta) > 0,
         Release(bufferMeta), UNCHANGED vars,
         UNCHANGED <<bufferMeta, clientZone>>,
         bufferAlive' \in BOOLEAN, clientMeta' \in {0, bufferMeta},
         logEvents' \in Nat,
         Holders(bufferMeta)' = Holders(bufferMeta) - 1
  PROVE  OInv'
  <1>1. ObjectsTypes'
    BY HolderReleases DEF OInv, ObjectsTypes, Release
  <1>2. BufferMeta'
    BY DEF OInv, BufferMeta, vars
  <1>3. \A k \in 1 .. Len(metaRefs) :
          k # bufferMeta => Holders(k)' = Holders(k)
    <2> TAKE k \in 1 .. Len(metaRefs)
    <2>1. k # 0
      BY DEF OInv, ObjectsTypes
    <2> HAVE k # bufferMeta
    <2>2. bufferMeta # k /\ bufferMeta' # k
      OBVIOUS
    <2>3. clientMeta # k /\ clientMeta' # k
      BY <2>1 DEF OInv, ObjectsTypes
    <2> QED BY <2>2, <2>3 DEF Holders
  <1>4. MetaCounts'
    BY <1>3, HolderReleases, HoldersType, CountsAreParts
    DEF OInv, MetaCounts, ObjectsTypes
  <1>5. ZoneCount'
    BY HolderReleases DEF ZoneCount
  <1>6. OnlyTheseLeak'
    BY <1>1, <1>4, <1>5, CountsAreParts
  <1> QED BY <1>1, <1>2, <1>6 DEF OInv

(* DropMetadata, DropLogEvent and DropBuffer release what they hold.       *)
LEMMA DropsInv ==
  ASSUME OInv, DropMetadata \/ DropLogEvent \/ DropBuffer PROVE OInv'
  <1> USE DEF OInv
  <1>1. CASE DropMetadata
    <2>1. bufferMeta # 0 /\ clientMeta = bufferMeta
      BY <1>1 DEF DropMetadata, ObjectsTypes
    <2>2. Holders(bufferMeta) > 0
      BY <2>1 DEF Holders, ObjectsTypes
    <2>3. Holders(bufferMeta)' = Holders(bufferMeta) - 1
      BY <1>1, <2>1 DEF Holders, DropMetadata, ObjectsTypes
    <2> QED
      BY <1>1, <2>1, <2>2, <2>3, DropKeeps DEF DropMetadata, ObjectsTypes
  <1>2. CASE DropLogEvent
    <2>1. bufferMeta # 0
      BY <1>2 DEF DropLogEvent, BufferMeta
    <2>2. Holders(bufferMeta) > 0
      BY <1>2 DEF Holders, DropLogEvent, ObjectsTypes
    <2>3. Holders(bufferMeta)' = Holders(bufferMeta) - 1
      BY <1>2 DEF Holders, DropLogEvent, ObjectsTypes
    <2> QED
      BY <1>2, <2>1, <2>2, <2>3, DropKeeps DEF DropLogEvent, ObjectsTypes
  <1>3. CASE DropBuffer /\ bufferMeta # 0
    <2>1. Holders(bufferMeta) > 0
      BY <1>3 DEF Holders, DropBuffer, ObjectsTypes
    <2>2. Holders(bufferMeta)' = Holders(bufferMeta) - 1
      BY <1>3 DEF Holders, DropBuffer, ObjectsTypes
    <2> QED
      BY <1>3, <2>1, <2>2, DropKeeps DEF DropBuffer, ObjectsTypes
  <1>4. CASE DropBuffer /\ bufferMeta = 0
    <2>1. /\ metaRefs = <<>> /\ metaRefs' = <<>>
          /\ UNCHANGED <<zoneRefs, clientZone>>
      BY <1>4 DEF DropBuffer, BufferMeta
    <2>2. ObjectsTypes'
      BY <1>4 DEF DropBuffer, ObjectsTypes
    <2>3. BufferMeta'
      BY <1>4 DEF DropBuffer, BufferMeta, vars
    <2>4. MetaCounts'
      BY <2>1 DEF MetaCounts
    <2>5. ZoneCount'
      BY <2>1, CountsAreParts DEF ZoneCount
    <2> QED BY <2>2, <2>3, <2>4, <2>5, CountsAreParts
  <1> QED BY <1>1, <1>2, <1>3, <1>4

(* GetTimezone and DropTimezone change the references to the time zone.    *)
LEMMA TimezoneInv ==
  ASSUME OInv, GetTimezone \/ DropTimezone PROVE OInv'
  <1> USE DEF OInv
  <1>1. /\ UNCHANGED <<metaRefs, bufferMeta, bufferAlive, clientMeta,
                       logEvents>>
        /\ UNCHANGED vars
    BY DEF GetTimezone, DropTimezone
  <1>2. ObjectsTypes'
    <2>1. clientZone' \in BOOLEAN
      BY Zenon DEF GetTimezone, DropTimezone
    <2>2. zoneRefs' \in Int
      BY DEF ObjectsTypes, GetTimezone, DropTimezone
    <2> QED BY <1>1, <2>1, <2>2 DEF ObjectsTypes
  <1>3. BufferMeta'
    BY <1>1 DEF BufferMeta, vars
  <1>4. MetaCounts'
    BY <1>1, CountsAreParts DEF MetaCounts, Holders
  <1>5. ZoneCount'
    <2>1. Cardinality(Living(metaRefs)) \in Nat /\ Len(metaRefs) \in Nat
      BY LivingFinite DEF ObjectsTypes
    <2>2. ZoneCount
      BY CountsAreParts
    <2> QED BY <1>1, <2>1, <2>2 DEF ZoneCount, GetTimezone, DropTimezone
  <1> QED BY <1>2, <1>3, <1>4, <1>5, CountsAreParts

(* A new metadata object, with its reference to the time zone.             *)
LEMMA CountMetadataInv ==
  ASSUME OInv, bufferAlive, CountMetadata, hasMetadata' = TRUE
  PROVE  OInv'
  <1> USE DEF OInv
  <1> DEFINE n == Len(metaRefs) + 1
             new == Created(metaRefs)
  <1>1. /\ metaRefs \in Seq(Nat) /\ MetaCounts /\ ZoneCount
        /\ n \in Nat /\ Cardinality(Living(metaRefs)) \in Nat
    BY CountsAreParts, LivingFinite DEF ObjectsTypes
  <1>2. /\ new \in Seq(Nat)
        /\ Len(new) = n
        /\ \A m \in 1 .. Len(metaRefs) : new[m] = metaRefs[m]
        /\ new[n] = 1
        /\ Cardinality(Living(new)) = Cardinality(Living(metaRefs)) + 1
    BY <1>1, LivingCreated
  <1> HIDE DEF new
  <1>3. zoneRefs' = Cardinality(Living(new)) + n
                      + (IF clientZone THEN 1 ELSE 0)
    BY <1>1, <1>2 DEF CountMetadata, InitPyTimezone, ZoneCount
  <1>4. CASE hasMetadata
    <2>1. metaRefs' = new /\ UNCHANGED <<bufferMeta, bufferAlive, clientMeta,
                                         clientZone, logEvents>>
      BY <1>4 DEF CountMetadata, new
    <2>2. bufferMeta # 0 /\ bufferMeta # n
      BY <1>4 DEF BufferMeta, ObjectsTypes
    <2>3. ObjectsTypes'
      <3>1. zoneRefs' \in Int
        BY <1>1, <1>2, <1>3
      <3>2. Len(metaRefs') = n
        BY <1>2, <2>1
      <3> QED BY <1>2, <2>1, <3>1, <3>2 DEF ObjectsTypes
    <2>4. BufferMeta'
      BY <2>1, <2>2, <1>4 DEF BufferMeta
    <2>5. MetaCounts'
      <3>1. \A m \in 1 .. n : Holders(m)' = Holders(m)
        BY <2>1 DEF Holders
      <3>2. Holders(n) = 0
        BY <1>1, <2>2 DEF Holders, ObjectsTypes
      <3>3. /\ Len(metaRefs') = n /\ metaRefs'[n] = 1
            /\ \A m \in 1 .. Len(metaRefs) : metaRefs'[m] = metaRefs[m]
            /\ bufferMeta' = bufferMeta
        BY <1>2, <2>1
      <3>4. \A m \in 1 .. n : m = n \/ m \in 1 .. Len(metaRefs)
        BY <1>1
      <3> QED BY <1>1, <2>2, <3>1, <3>2, <3>3, <3>4 DEF MetaCounts
    <2>6. ZoneCount'
      BY <1>2, <1>3, <2>1 DEF ZoneCount
    <2> QED BY <2>3, <2>4, <2>5, <2>6, CountsAreParts
  <1>5. CASE ~hasMetadata
    <2>1. bufferMeta = 0 /\ metaRefs = <<>> /\ logEvents = 0 /\ n = 1
      BY <1>5 DEF BufferMeta
    <2> DEFINE set == [new EXCEPT ![1] = @ + 1]
    <2>2. /\ set \in Seq(Nat) /\ Len(set) = 1 /\ set[1] = 2
          /\ Living(set) = Living(new)
      <3>1. 1 \in 1 .. Len(new) /\ new[1] > 0 /\ new[1] = 1 /\ Len(new) = 1
        BY <1>2, <2>1
      <3>2. /\ set \in Seq(Nat) /\ Len(set) = Len(new)
            /\ set[1] = new[1] + 1 /\ Living(set) = Living(new)
        BY <1>2, <3>1, LivingTaken
      <3> QED BY <3>1, <3>2
    <2> HIDE DEF set
    <2>3. /\ metaRefs' = set /\ bufferMeta' = 1 /\ clientMeta' = 1
          /\ UNCHANGED <<bufferAlive, clientZone, logEvents>>
      BY <1>5, <2>1 DEF CountMetadata, MetadataInit, new, set
    <2>4. ObjectsTypes'
      <3>1. zoneRefs' \in Int
        BY <1>1, <1>2, <1>3
      <3>2. bufferAlive' \in BOOLEAN /\ clientZone' \in BOOLEAN
        BY <2>3 DEF ObjectsTypes
      <3>3. metaRefs' \in Seq(Nat) /\ Len(metaRefs') = 1
        BY <2>2, <2>3
      <3>4. bufferMeta' \in 0 .. Len(metaRefs')
        BY <2>3, <3>3
      <3>5. clientMeta' \in {0, bufferMeta'} /\ logEvents' \in Nat
        BY <2>1, <2>3
      <3> QED BY <3>1, <3>2, <3>3, <3>4, <3>5 DEF ObjectsTypes
    <2>5. BufferMeta'
      BY <2>3 DEF BufferMeta
    <2>6. MetaCounts'
      <3>1. Holders(1)' = 2
        BY <2>1, <2>3 DEF Holders
      <3> QED BY <2>2, <2>3, <3>1 DEF MetaCounts
    <2>7. ZoneCount'
      BY <1>3, <2>1, <2>2, <2>3 DEF ZoneCount
    <2> QED BY <2>4, <2>5, <2>6, <2>7, CountsAreParts
  <1> QED BY <1>4, <1>5, Zenon DEF BufferMeta

(* A log event is kept by the client, or is not.                           *)
LEMMA CountLogEventInv ==
  ASSUME OInv, bufferAlive, CountLogEvent, hasMetadata,
         hasMetadata' = hasMetadata
  PROVE  OInv'
  <1> USE DEF OInv
  <1>1. /\ metaRefs \in Seq(Nat) /\ bufferMeta \in 1 .. Len(metaRefs)
        /\ MetaCounts /\ ZoneCount
    BY CountsAreParts DEF ObjectsTypes, BufferMeta
  <1>2. UNCHANGED <<zoneRefs, bufferMeta, bufferAlive, clientMeta,
                    clientZone>>
    BY DEF CountLogEvent
  <1>3. BufferMeta'
    BY <1>1, <1>2 DEF BufferMeta, CountLogEvent
  <1>4. CASE UNCHANGED <<metaRefs, logEvents>>
    BY <1>1, <1>2, <1>3, <1>4, CountsAreParts
    DEF ObjectsTypes, MetaCounts, ZoneCount, Holders
  <1>5. CASE /\ metaRefs' = SetMetadata(metaRefs, bufferMeta)
             /\ logEvents' = logEvents + 1
    <2>1. Holders(bufferMeta) \in Nat \ {0}
      BY <1>1 DEF Holders, ObjectsTypes
    <2>2. metaRefs[bufferMeta] > 0
      BY <1>1, <2>1 DEF MetaCounts
    <2> DEFINE set == [metaRefs EXCEPT ![bufferMeta] = @ + 1]
    <2>3. /\ set \in Seq(Nat) /\ Len(set) = Len(metaRefs)
          /\ set[bufferMeta] = metaRefs[bufferMeta] + 1
          /\ \A k \in 1 .. Len(metaRefs) :
               k # bufferMeta => set[k] = metaRefs[k]
          /\ Living(set) = Living(metaRefs)
      BY <1>1, <2>2, LivingTaken
    <2> HIDE DEF set
    <2>4. metaRefs' = set
      BY <1>5 DEF set, SetMetadata
    <2>5. ObjectsTypes'
      BY <1>2, <1>5, <2>3, <2>4 DEF ObjectsTypes
    <2>6. MetaCounts'
      <3>1. Holders(bufferMeta)' = Holders(bufferMeta) + 1
        BY <1>2, <1>5 DEF Holders, ObjectsTypes
      <3>2. \A k \in 1 .. Len(metaRefs) :
              k # bufferMeta => Holders(k)' = Holders(k)
        BY <1>2 DEF Holders
      <3>3. Len(metaRefs') = Len(metaRefs)
        BY <2>3, <2>4
      <3> SUFFICES ASSUME NEW k \in 1 .. Len(metaRefs)
                   PROVE  metaRefs'[k] = Holders(k)'
                            + (IF k = bufferMeta THEN 0 ELSE 1)
        BY <1>2, <3>3 DEF MetaCounts
      <3>4. CASE k = bufferMeta
        BY <1>1, <1>2, <2>1, <2>3, <2>4, <3>1, <3>4 DEF MetaCounts
      <3>5. CASE k # bufferMeta
        BY <1>1, <2>3, <2>4, <3>2, <3>5 DEF MetaCounts
      <3> QED BY <3>4, <3>5
    <2>7. ZoneCount'
      BY <1>1, <1>2, <2>3, <2>4 DEF ZoneCount
    <2> QED BY <1>3, <2>5, <2>6, <2>7, CountsAreParts
  <1> QED BY <1>4, <1>5 DEF CountLogEvent

(* A step that takes no reference.                                         *)
LEMMA StutterInv ==
  ASSUME OInv, UNCHANGED objectVars, hasMetadata' = hasMetadata,
         call'.op = "log_event" => hasMetadata'
  PROVE  OInv'
BY DEF OInv, ObjectsTypes, BufferMeta, OnlyTheseLeak, Holders, Alive,
       objectVars

(* The invariant is inductive, with the types of the decoder.              *)
LEMMA NextOInv ==
  ASSUME OInv, BufP!TypeInv, DecTypes, [ObjectsNext]_allVars
  PROVE  OInv'
  <1>1. CASE CountedStep
    <2>1. /\ hasMetadata' = (hasMetadata \/ CreatesMetadata)
          /\ call'.op = "log_event" => hasMetadata'
          /\ delivered' # delivered => hasMetadata
      BY <1>1, MetadataSteps DEF CountedStep, OInv, BufferMeta, DecTypes
    <2>2. CASE CreatesMetadata /\ CountMetadata
      BY <1>1, <2>1, <2>2, CountMetadataInv DEF CountedStep
    <2>3. CASE ~CreatesMetadata /\ delivered' # delivered /\ CountLogEvent
      BY <1>1, <2>1, <2>3, CountLogEventInv DEF CountedStep, DecTypes
    <2>4. CASE ~CreatesMetadata /\ UNCHANGED objectVars
      BY <2>1, <2>4, StutterInv DEF DecTypes
    <2> QED BY <1>1, <2>2, <2>3, <2>4 DEF CountedStep
  <1>2. CASE GetTimezone \/ DropTimezone
    BY <1>2, TimezoneInv
  <1>3. CASE DropMetadata \/ DropLogEvent \/ DropBuffer
    BY <1>3, DropsInv
  <1>4. CASE UNCHANGED allVars
    BY <1>4, StutterInv DEF allVars, vars, OInv, BufferMeta
  <1> QED BY <1>1, <1>2, <1>3, <1>4 DEF ObjectsNext

(* The counts are as OInv says in every reachable state.                   *)
LEMMA AlwaysOInv == ObjectsSpec => []OInv
  <1>1. ObjectsSpec => [](BufP!TypeInv /\ DecTypes)
    BY ObjectsIsDecoder, AlwaysBufferInv, AlwaysDecTypes, PTL
  <1> QED BY <1>1, InitOInv, NextOInv, PTL DEF ObjectsSpec

-----------------------------------------------------------------------------
(* A metadata object lives as long as the buffer, the client or a log      *)
(* event points to it, and the time zone as long as a metadata object or   *)
(* the client does, in whatever order they are dropped.                    *)
THEOREM ObjectsStayAlive == ObjectsSpec => []ObjectsAlive
  <1>1. OInv => ObjectsAlive
    <2> SUFFICES ASSUME OInv PROVE ObjectsAlive
      OBVIOUS
    <2> USE DEF OInv
    <2>1. \A m \in DOMAIN metaRefs : Holders(m) > 0 => metaRefs[m] > 0
      BY HoldersType DEF OnlyTheseLeak
    <2>2. /\ IsFiniteSet(Alive) /\ Cardinality(Alive) \in Nat
          /\ Len(metaRefs) \in Nat
      <3>1. Alive = Living(metaRefs)
        BY DEF Alive, Living
      <3> QED BY <3>1, LivingFinite DEF ObjectsTypes
    <2>3. Alive # {} => Cardinality(Alive) > 0
      BY <2>2, FS_EmptySet
    <2>4. Alive # {} \/ clientZone => zoneRefs > 0
      BY <2>2, <2>3 DEF OnlyTheseLeak
    <2> QED BY <2>1, <2>4 DEF ObjectsAlive
  <1> QED BY <1>1, AlwaysOInv, PTL

(* Nothing else leaks: every count is what the objects alive account for,  *)
(* the metadata object of a second preamble and one reference to the time  *)
(* zone for each metadata object excepted.                                 *)
THEOREM LeaksAreKnown == ObjectsSpec => []OnlyTheseLeak
BY AlwaysOInv, PTL DEF OInv

=============================================================================

----------------------- MODULE EncodingServiceProofs ------------------------
(***************************************************************************)
(* Theorems about EncodingService for all schema ids and topics.  None     *)
(* assumes anything of the schema cache, which other calls fill and empty  *)
(* between any two steps, nor of what the registry answers.                *)
(***************************************************************************)
EXTENDS EncodingService, TLAPS

Safe == Init /\ [][Next]_vars

-----------------------------------------------------------------------------
(* Types *)

LEMMA EncodingOfIsEncoding == \A type : EncodingOf(type) \in Encodings
  BY DEF EncodingOf, EncodingMap, Encodings

LEMMA TypeInit == Init => TypeOK
<1> SUFFICES ASSUME Init PROVE TypeOK
  OBVIOUS
<1>1. Unknown \in [encoding : Encodings, method : Methods]
  BY DEF Unknown, Encodings, Methods
<1>2. Invalid("unknown") \in [valid : BOOLEAN, encoding : Encodings]
  BY DEF Invalid, Encodings
<1>3. "detect" \in States /\ {} \subseteq Keys
  BY DEF States
<1> QED
  BY <1>1, <1>2, <1>3 DEF Init, TypeOK

LEMMA AnsweredType ==
  ASSUME NEW k \in Keys, NEW a \in SchemaTypes \union {None}, Answered(k, a), TypeOK
  PROVE  cached' \subseteq Keys /\ answers' \subseteq [key : Keys, type : SchemaTypes \union {None}]
  BY DEF Answered, TypeOK

LEMMA KeysAsked == TypeOK => call.topic \in Keys /\ payload.id \in Keys
  BY DEF TypeOK, Calls, Payloads, payload, Keys

LEMMA DetectsType ==
  ASSUME TypeOK, NEW e \in Encodings, NEW m \in Methods, Detects(e, m)
  PROVE  /\ config' \in Configs /\ pc' \in States /\ call' \in Calls
         /\ detected' \in [encoding : Encodings, method : Methods]
         /\ validated' \in [valid : BOOLEAN, encoding : Encodings] /\ decoded' \in BOOLEAN
  BY DEF TypeOK, Detects, States

LEMMA PassesOnType ==
  ASSUME TypeOK, NEW to \in Layers, PassesOn(to)
  PROVE  /\ config' \in Configs /\ pc' \in States /\ call' \in Calls
         /\ detected' \in [encoding : Encodings, method : Methods]
         /\ validated' \in [valid : BOOLEAN, encoding : Encodings] /\ decoded' \in BOOLEAN
  BY DEF TypeOK, PassesOn, States

LEMMA ValidatesType ==
  ASSUME TypeOK, NEW v \in [valid : BOOLEAN, encoding : Encodings], Validates(v)
  PROVE  /\ config' \in Configs /\ pc' \in States /\ call' \in Calls
         /\ detected' \in [encoding : Encodings, method : Methods]
         /\ validated' \in [valid : BOOLEAN, encoding : Encodings]
         /\ decoded' \in BOOLEAN /\ slow' \in BOOLEAN
  BY DEF TypeOK, Validates, States

LEMMA DecodesType ==
  ASSUME TypeOK, NEW b \in BOOLEAN, Decodes(b)
  PROVE  /\ config' \in Configs /\ pc' \in States /\ call' \in Calls
         /\ detected' \in [encoding : Encodings, method : Methods]
         /\ validated' \in [valid : BOOLEAN, encoding : Encodings]
         /\ decoded' \in BOOLEAN /\ slow' \in BOOLEAN
  BY DEF TypeOK, Decodes, States

LEMMA Verdicts ==
  \A e \in Encodings : {Valid(e), Invalid(e)} \subseteq [valid : BOOLEAN, encoding : Encodings]
  BY DEF Valid, Invalid

LEMMA UnaskedType ==
  ASSUME TypeOK, Unasked
  PROVE  cached' \subseteq Keys /\ answers' \subseteq [key : Keys, type : SchemaTypes \union {None}]
  BY DEF TypeOK, Unasked

LEMMA TypeStep == TypeOK /\ [Next]_vars => TypeOK'
<1> SUFFICES ASSUME TypeOK, [Next]_vars PROVE TypeOK'
  OBVIOUS
<1>0. slow \in BOOLEAN
  BY DEF TypeOK
<1>1. ASSUME NEW c \in Calls, Receive(c) PROVE TypeOK'
  BY <1>1 DEF TypeOK, Receive, Unknown, Invalid, Encodings, Methods, States
<1>2. CASE CheckSize
  BY <1>0, <1>2, DetectsType, PassesOnType, UnaskedType
     DEF CheckSize, Encodings, Methods, Layers, TypeOK
<1>3. CASE DetectAvro
  BY <1>0, <1>3, DetectsType, PassesOnType, UnaskedType
     DEF DetectAvro, Encodings, Methods, Layers, TypeOK
<1>4. CASE DetectJson
  BY <1>0, <1>4, DetectsType, PassesOnType, UnaskedType
     DEF DetectJson, Encodings, Methods, Layers, TypeOK
<1>5. CASE DetectViaRegistry
  <2>1. CASE Unasked /\ PassesOn("utf8")
    BY <1>0, <1>5, <2>1, PassesOnType, UnaskedType DEF DetectViaRegistry, Layers, TypeOK
  <2>2. ASSUME NEW a \in SchemaTypes \union {None}, Answered(call.topic, a),
               PassesOn("utf8") \/ Detects(EncodingOf(a), "schema_registry")
        PROVE  TypeOK'
    <3>1. EncodingOf(a) \in Encodings /\ "schema_registry" \in Methods /\ "utf8" \in Layers
      BY EncodingOfIsEncoding DEF Methods, Layers
    <3>2. cached' \subseteq Keys /\ answers' \subseteq [key : Keys, type : SchemaTypes \union {None}]
      BY <2>2, AnsweredType, KeysAsked
    <3>3. slow' \in BOOLEAN
      BY <1>0, <1>5 DEF DetectViaRegistry
    <3> QED
      BY <2>2, <3>1, <3>2, <3>3, PassesOnType, DetectsType DEF TypeOK
  <2> QED
    BY <1>5, <2>1, <2>2 DEF DetectViaRegistry
<1>6. CASE DetectUtf8
  BY <1>0, <1>6, DetectsType, UnaskedType DEF DetectUtf8, Encodings, Methods, TypeOK
<1>7. ASSUME NEW v \in [valid : BOOLEAN, encoding : Encodings], Validates(v),
             Unasked \/ \E k \in Keys, a \in SchemaTypes \union {None} : Answered(k, a)
      PROVE  TypeOK'
  BY <1>7, ValidatesType, UnaskedType, AnsweredType DEF TypeOK
<1>8. CASE Validate
  <2>1. CASE RejectUnknown
    BY <1>7, <2>1, Verdicts DEF RejectUnknown, Encodings
  <2>2. CASE ValidateJson
    BY <1>7, <2>2, Verdicts DEF ValidateJson, Encodings
  <2>3. CASE ValidateAvro
    <3>1. Valid("avro") \in [valid : BOOLEAN, encoding : Encodings]
          /\ Invalid("avro") \in [valid : BOOLEAN, encoding : Encodings]
      BY Verdicts DEF Encodings
    <3> QED
      BY <1>7, <2>3, <3>1, KeysAsked DEF ValidateAvro
  <2>4. CASE ValidateProtobuf
    <3>1. Valid("protobuf") \in [valid : BOOLEAN, encoding : Encodings]
          /\ Invalid("protobuf") \in [valid : BOOLEAN, encoding : Encodings]
      BY Verdicts DEF Encodings
    <3> QED
      BY <1>7, <2>4, <3>1, KeysAsked DEF ValidateProtobuf
  <2>5. CASE ValidateText
    BY <1>7, <2>5, Verdicts DEF ValidateText, Encodings
  <2> QED
    BY <1>8, <2>1, <2>2, <2>3, <2>4, <2>5 DEF Validate
<1>9. ASSUME NEW b \in BOOLEAN, Decodes(b),
             Unasked \/ \E k \in Keys, a \in SchemaTypes \union {None} : Answered(k, a)
      PROVE  TypeOK'
  BY <1>9, DecodesType, UnaskedType, AnsweredType DEF TypeOK
<1>10. CASE Decode
  <2>1. CASE DecodeNull
    BY <2>1 DEF DecodeNull, callVars, TypeOK, States
  <2>2. CASE DecodeJson
    <3>1. (payload.json = "shown") \in BOOLEAN
      OBVIOUS
    <3> QED
      BY <1>9, <2>2, <3>1 DEF DecodeJson
  <2>3. CASE DecodeAvro
    <3>1. HasId \in BOOLEAN
      BY DEF HasId
    <3> QED
      BY <1>9, <2>3, <3>1, KeysAsked DEF DecodeAvro
  <2>4. CASE DecodeRaw
    BY <1>9, <2>4 DEF DecodeRaw
  <2>5. CASE DecodeUnknown
    BY <1>9, <2>5 DEF DecodeUnknown
  <2> QED
    BY <1>10, <2>1, <2>2, <2>3, <2>4, <2>5 DEF Decode
<1>11. ASSUME NEW k \in Keys, Remember(k) \/ Forget(k) PROVE TypeOK'
  BY <1>11 DEF Remember, Forget, callVars, TypeOK
<1>12. CASE UNCHANGED vars
  BY <1>12 DEF vars, callVars, TypeOK
<1> QED
  BY <1>1, <1>2, <1>3, <1>4, <1>5, <1>6, <1>8, <1>10, <1>11, <1>12 DEF Next, Detect

\* Every variable holds a value the code can produce.
THEOREM TypeCorrect == Safe => []TypeOK
  BY TypeInit, TypeStep, PTL DEF Safe

-----------------------------------------------------------------------------
(* Detection *)

\* What the layers that were passed leave for the next one.
Passed ==
  /\ pc \in Layers \union {"detect"} => detected = Unknown /\ validated = Invalid("unknown")
  /\ pc \in Layers => payload.size \in {"short", "normal"}
  /\ pc \in {"json", "registry", "utf8"} => ~(config.avro /\ HasMagic)
  /\ pc \in {"registry", "utf8"} => slow \/ ~(config.json /\ Parses)

\* What the methods that read the bytes have seen of them.
Seen ==
  /\ detected.method = "parse_attempt" => detected.encoding = "json" /\ Parses /\ ~IsNull
  /\ detected.method = "utf8_decode" =>
       detected.encoding = "utf8_text" /\ payload.text = "printable" /\ ~IsNull
  /\ detected.method \in {"empty_message", "size_check", "binary_fallback"} =>
       detected.encoding = "binary" /\ ~IsNull

DetectionInv == Passed /\ Seen /\ BinaryIsLastResort

LEMMA DetectionInit == Init => DetectionInv
  BY DEF Init, DetectionInv, Passed, Seen, BinaryIsLastResort, Unknown, Layers

\* The registry's answers of a call are never forgotten before it ends.
LEMMA AnswersKept == Unasked \/ (\E k, a : Answered(k, a)) => answers \subseteq answers'
  BY DEF Unasked, Answered

\* The steps that come after detection, and other calls, change nothing of it.
LEMMA DetectionKept ==
  ASSUME DetectionInv, pc' = pc \/ pc' \in {"decode", "done", "raised"},
         UNCHANGED <<config, call, detected, slow>>,
         pc' = pc => UNCHANGED validated,
         answers \subseteq answers'
  PROVE  DetectionInv'
  BY DEF DetectionInv, Passed, Seen, BinaryIsLastResort, Confirmed, Layers, payload, Parses,
         HasMagic, HasId, IsNull, Unknown, Invalid

\* A schema makes a message Protobuf only if it is one.
LEMMA ProtobufIsProtobuf == \A type : EncodingOf(type) = "protobuf" => type = "PROTOBUF"
  BY DEF EncodingOf, EncodingMap

LEMMA DetectionStep == TypeOK /\ DetectionInv /\ [Next]_vars => DetectionInv'
<1> SUFFICES ASSUME TypeOK, DetectionInv, [Next]_vars PROVE DetectionInv'
  OBVIOUS
<1> USE DEF DetectionInv, Passed, Seen, BinaryIsLastResort, Layers, payload, Parses, HasMagic,
            HasId, IsNull, Confirmed
<1>1. ASSUME NEW c \in Calls, Receive(c) PROVE DetectionInv'
  BY <1>1 DEF Receive, Unknown
<1>2. CASE CheckSize
  BY <1>2 DEF CheckSize, Detects, PassesOn, Unasked, Unknown
<1>3. CASE DetectAvro
  BY <1>3 DEF DetectAvro, Detects, PassesOn, Unasked, Unknown
<1>4. CASE DetectJson
  BY <1>4 DEF DetectJson, Detects, PassesOn, Unasked, Unknown
<1>5. CASE DetectViaRegistry
  <2>1. CASE Unasked
    BY <1>5, <2>1, ProtobufIsProtobuf
       DEF DetectViaRegistry, Detects, PassesOn, Unasked, Answered, Unknown
  <2>2. ASSUME NEW a, Answered(call.topic, a),
               PassesOn("utf8") \/ Detects(EncodingOf(a), "schema_registry")
        PROVE  DetectionInv'
    <3>1. [key |-> call.topic, type |-> a] \in answers'
      BY <2>2 DEF Answered
    <3>2. UNCHANGED slow
      BY <1>5 DEF DetectViaRegistry
    <3> QED
      BY <1>5, <2>2, <3>1, <3>2, ProtobufIsProtobuf DEF DetectViaRegistry, Detects, PassesOn, Unknown
  <2> QED
    BY <1>5, <2>1, <2>2 DEF DetectViaRegistry
<1>6. CASE DetectUtf8
  BY <1>6 DEF DetectUtf8, Detects, Unasked, Unknown
<1>7. CASE Validate
  <2>1. PICK v : Validates(v)
    BY <1>7 DEF Validate, RejectUnknown, ValidateJson, ValidateAvro, ValidateProtobuf,
                ValidateText
  <2>2. Unasked \/ \E k, a : Answered(k, a)
    BY <1>7 DEF Validate, RejectUnknown, ValidateJson, ValidateAvro, ValidateProtobuf,
                ValidateText
  <2> QED
    BY <2>1, <2>2, AnswersKept, DetectionKept DEF Validates
<1>8. CASE Decode
  <2>1. CASE DecodeNull
    BY <2>1, DetectionKept DEF DecodeNull, callVars
  <2>2. ASSUME NEW b, Decodes(b), Unasked \/ \E k, a : Answered(k, a) PROVE DetectionInv'
    BY <2>2, DetectionKept, AnswersKept DEF Decodes
  <2> QED
    BY <1>8, <2>1, <2>2 DEF Decode, DecodeJson, DecodeAvro, DecodeRaw, DecodeUnknown
<1>9. ASSUME NEW k \in Keys, Remember(k) \/ Forget(k) PROVE DetectionInv'
  BY <1>9, DetectionKept DEF Remember, Forget, callVars
<1>10. CASE UNCHANGED vars
  BY <1>10, DetectionKept DEF vars, callVars
<1> QED
  BY <1>1, <1>2, <1>3, <1>4, <1>5, <1>6, <1>7, <1>8, <1>9, <1>10 DEF Next, Detect

\* A message is reported as binary for want of anything better only if no enabled layer
\* that reads its bytes fits it or one has timed out, whatever the registry does; and as
\* Protobuf only on the word of its topic's schema.
THEOREM BinaryFallback == Safe => []BinaryIsLastResort
<1>1. DetectionInv => BinaryIsLastResort
  BY DEF DetectionInv
<1> QED
  BY <1>1, TypeInit, TypeStep, DetectionInit, DetectionStep, PTL DEF Safe

-----------------------------------------------------------------------------
(* Validation *)

VerdictInv == DetectedIsValid /\ ValidMeansReadable

LEMMA VerdictInit == Init => VerdictInv
  BY DEF Init, VerdictInv, DetectedIsValid, ValidMeansReadable, Invalid

LEMMA VerdictKept ==
  ASSUME VerdictInv, UNCHANGED <<config, call, detected, validated>>,
         answers \subseteq answers', pc' \in {"decode", "done"} => pc \in {"decode", "done"}
  PROVE  VerdictInv'
  BY DEF VerdictInv, DetectedIsValid, ValidMeansReadable, Confirmed, payload, Parses, HasMagic, HasId,
         Valid

\* While a message is detected there is no verdict.
LEMMA VerdictDetecting ==
  ASSUME Passed, Detect
  PROVE  VerdictInv'
<1>1. validated' = Invalid("unknown") /\ pc' \notin {"decode", "done"}
  BY DEF Passed, Layers, Detect, CheckSize, DetectAvro, DetectJson, DetectViaRegistry,
         DetectUtf8, Detects, PassesOn
<1> QED
  BY <1>1 DEF VerdictInv, DetectedIsValid, ValidMeansReadable, Invalid

LEMMA VerdictStep == TypeOK /\ DetectionInv /\ VerdictInv /\ [Next]_vars => VerdictInv'
<1> SUFFICES ASSUME TypeOK, DetectionInv, VerdictInv, [Next]_vars PROVE VerdictInv'
  OBVIOUS
<1>1. ASSUME NEW c \in Calls, Receive(c) PROVE VerdictInv'
  BY <1>1 DEF Receive, VerdictInv, DetectedIsValid, ValidMeansReadable, Invalid
<1>2. CASE Detect
  BY <1>2, VerdictDetecting DEF DetectionInv
<1>3. CASE Validate
  <2> USE DEF VerdictInv, DetectedIsValid, ValidMeansReadable, Confirmed, Validates, Valid, Invalid,
              Target, payload, Parses, HasMagic, HasId, IsNull, None
  <2>1. detected \in [encoding : Encodings, method : Methods]
    BY DEF TypeOK
  <2>2. CASE RejectUnknown
    BY <2>1, <2>2 DEF RejectUnknown, DetectionInv, Seen, Methods
  <2>3. CASE ValidateJson
    BY <2>1, <2>3 DEF ValidateJson, DetectionInv, Seen, Methods
  <2>4. CASE ValidateAvro
    <3>1. CASE HasMagic /\ config.client
      <4>1. CASE Validates(Invalid("avro"))
        BY <2>1, <2>4, <4>1 DEF ValidateAvro, DetectionInv, Seen, Methods
      <4>2. ASSUME NEW a \in SchemaTypes, Answered(payload.id, a), Validates(Valid("avro"))
            PROVE  VerdictInv'
        <5>1. [key |-> payload.id, type |-> a] \in answers' /\ a \in SchemaTypes
          BY <4>2 DEF Answered
        <5>2. \E r \in answers' : r.key = payload.id /\ r.type \in SchemaTypes
          BY <5>1
        <5>3. validated' = Valid("avro") /\ UNCHANGED <<config, call, detected>>
          BY <4>2
        <5>4. ValidMeansReadable'
          BY <2>4, <3>1, <5>2, <5>3 DEF ValidateAvro
        <5>5. DetectedIsValid'
          BY <2>1, <2>4, <5>3 DEF ValidateAvro, DetectionInv, Seen, Methods
        <5> QED
          BY <5>4, <5>5
      <4> QED
        BY <2>4, <3>1, <4>1, <4>2 DEF ValidateAvro
    <3>2. CASE ~(HasMagic /\ config.client)
      BY <2>1, <2>4, <3>2 DEF ValidateAvro, DetectionInv, Seen, Methods
    <3> QED
      BY <3>1, <3>2
  <2>5. CASE ValidateProtobuf
    <3>1. CASE Validates(Invalid("protobuf"))
      BY <2>1, <2>5, <3>1 DEF ValidateProtobuf, DetectionInv, Seen, Methods
    <3>2. CASE Validates(Valid("protobuf"))
      <4>1. DetectedIsValid'
        BY <2>1, <2>5, <3>2 DEF ValidateProtobuf, DetectionInv, Seen, Methods
      <4>2. ASSUME config.client PROVE Confirmed(call.topic, {"PROTOBUF"})'
        <5>1. validated'.valid
          BY <3>2
        <5>2. PICK a : Answered(call.topic, a) /\ a = "PROTOBUF"
          BY <2>5, <4>2, <5>1 DEF ValidateProtobuf
        <5>3. [key |-> call.topic, type |-> "PROTOBUF"] \in answers'
          BY <5>2 DEF Answered
        <5> QED
          BY <3>2, <5>3
      <4>3. ValidMeansReadable'
        BY <2>5, <3>2, <4>2 DEF ValidateProtobuf
      <4> QED
        BY <4>1, <4>3
    <3> QED
      BY <2>5, <3>1, <3>2 DEF ValidateProtobuf
  <2>6. CASE ValidateText
    BY <2>1, <2>6 DEF ValidateText, DetectionInv, Seen, Methods
  <2> QED
    BY <1>3, <2>2, <2>3, <2>4, <2>5, <2>6 DEF Validate
<1>4. CASE Decode
  <2>1. CASE DecodeNull
    BY <2>1, VerdictKept DEF DecodeNull, callVars
  <2>2. ASSUME NEW b, Decodes(b), Unasked \/ \E k, a : Answered(k, a) PROVE VerdictInv'
    BY <2>2, VerdictKept, AnswersKept DEF Decodes
  <2> QED
    BY <1>4, <2>1, <2>2 DEF Decode, DecodeJson, DecodeAvro, DecodeRaw, DecodeUnknown
<1>5. ASSUME NEW k \in Keys, Remember(k) \/ Forget(k) PROVE VerdictInv'
  BY <1>5, VerdictKept DEF Remember, Forget, callVars
<1>6. CASE UNCHANGED vars
  BY <1>6, VerdictKept DEF vars, callVars
<1> QED
  BY <1>1, <1>2, <1>3, <1>4, <1>5, <1>6 DEF Next

LEMMA VerdictAlways == Safe => []VerdictInv
  BY TypeInit, TypeStep, DetectionInit, DetectionStep, VerdictInit, VerdictStep, PTL DEF Safe

\* What detection reads off the bytes, validation finds valid: the two never disagree
\* on a message, whatever happens to the cache they share between them.
THEOREM DetectedValid == Safe => []DetectedIsValid
<1>1. VerdictInv => DetectedIsValid
  BY DEF VerdictInv
<1> QED
  BY <1>1, VerdictAlways, PTL

\* What is reported valid can be read, or has been confirmed by the registry during this
\* very call, except where there is nothing to confirm it with: without a registry
\* client an Avro message needs its magic byte alone and a Protobuf message nothing.
THEOREM ValidReadable == Safe => []ValidMeansReadable
<1>1. VerdictInv => ValidMeansReadable
  BY DEF VerdictInv
<1> QED
  BY <1>1, VerdictAlways, PTL

=============================================================================

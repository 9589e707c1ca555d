--------------------------- MODULE EncodingService ---------------------------
(***************************************************************************)
(* EncodingService.process_message: the encoding of a message is detected  *)
(* in layers, the message is validated against the encoding it is declared *)
(* or detected to have, and decoded for display.                           *)
(*                                                                         *)
(* Detector, validator and decoder ask one schema registry client, whose   *)
(* cache other calls fill and empty meanwhile.  A step below is the code   *)
(* of one layer or of one of the three parts, up to and with the await it  *)
(* ends in: nothing else of it is shared.                                  *)
(***************************************************************************)
EXTENDS FiniteSets

CONSTANTS
  Ids,     \* schema ids, read from the bytes 1 to 4 of a message
  Topics   \* names of topics, and subjects of the registry

ASSUME EncodingAssumption == Ids # {} /\ Topics # {} /\ Ids \cap Topics = {}

Keys == Ids \union Topics

None == "none"

\* schema_type of a schema: one the detector maps to an encoding, or another.
SchemaTypes == {"AVRO", "PROTOBUF", "JSON", "other"}

Encodings == {"json", "avro", "protobuf", "utf8_text", "binary", "unknown"}

\* What the code tells apart of a payload.  size: "null" is a tombstone, which has
\* no value; "short" is less than 5 bytes, "oversized" more than
\* max_message_size_bytes.  text: it is not UTF-8, or is it for more than 80
\* percent "printable".  json: what it parses to, undecodable bytes replaced: nothing,
\* a value DecodeResult.content admits, or another one.
Payloads ==
  {p \in [size : {"null", "empty", "short", "normal", "oversized"}, magic : BOOLEAN,
          id : Ids, text : {"undecodable", "control", "printable"},
          json : {"no", "shown", "other"}] :
     /\ p.size \in {"null", "empty"} => ~p.magic /\ p.text = "control" /\ p.json = "no"
     /\ p.magic => p.json = "no"
     /\ p.size = "short" /\ p.magic => p.text # "printable"}

\* "bogus" is a declaration that names no encoding.
Calls == [payload : Payloads, topic : Topics, declared : Encodings \union {None, "bogus"}]

\* Which layers are enabled, and is there a registry client.  enable_protobuf_detection
\* is on by default and read nowhere: there is no layer it could enable.
Configs == [avro : BOOLEAN, json : BOOLEAN, protobuf : BOOLEAN, utf8 : BOOLEAN,
            client : BOOLEAN]

Methods == {"error", "empty_message", "size_check", "magic_byte", "parse_attempt",
            "schema_registry", "utf8_decode", "binary_fallback"}

VARIABLES
  config,
  cached,     \* the keys that are in the client's cache and have not expired
  pc,         \* where the call stands
  call,       \* its arguments
  detected,   \* encoding and method found
  validated,  \* the verdict and the encoding it is about
  decoded,    \* was the message decoded
  slow,       \* history: a parse or decode of this call has timed out
  answers     \* history: what the registry has answered this call

callVars == <<call, detected, validated, decoded, slow, answers>>
vars == <<config, cached, pc, callVars>>

Layers == {"magic", "json", "registry", "utf8"}
States == {"detect", "validate", "decode", "done", "raised"} \union Layers

Unknown == [encoding |-> "unknown", method |-> "error"]
Invalid(e) == [valid |-> FALSE, encoding |-> e]
Valid(e) == [valid |-> TRUE, encoding |-> e]

Init ==
  /\ config \in Configs
  /\ cached = {}
  /\ pc = "detect"
  /\ call \in Calls
  /\ detected = Unknown
  /\ validated = Invalid("unknown")
  /\ decoded = FALSE
  /\ slow = FALSE
  /\ answers = {}

-----------------------------------------------------------------------------
(* The registry client, as its callers see it *)

\* A cached schema raises TypeError, outside the client's own try.
Raises(k) == k \in cached

\* Otherwise the registry is asked: a schema is cached and returned; None stands for
\* a schema that is missing, a request that failed and a client not connected.
Answered(k, a) ==
  /\ k \notin cached
  /\ answers' = answers \union {[key |-> k, type |-> a]}
  /\ cached' = IF a = None THEN cached ELSE cached \union {k}

Unasked == UNCHANGED <<cached, answers>>

-----------------------------------------------------------------------------
(* process_message() *)

payload == call.payload
IsNull == payload.size = "null"
HasId == payload.size \in {"normal", "oversized"}
HasMagic == HasId /\ payload.magic

Receive(c) ==
  /\ pc \in {"done", "raised"}
  /\ pc' = "detect" /\ call' = c
  /\ detected' = Unknown /\ validated' = Invalid("unknown") /\ decoded' = FALSE
  /\ slow' = FALSE /\ answers' = {}
  /\ UNCHANGED <<config, cached>>

-----------------------------------------------------------------------------
(* EncodingDetector.detect_encoding *)

Detects(e, m) ==
  /\ pc' = "validate"
  /\ detected' = [encoding |-> e, method |-> m]
  /\ UNCHANGED <<config, call, validated, decoded>>

PassesOn(to) ==
  /\ pc' = to
  /\ UNCHANGED <<config, call, detected, validated, decoded>>

\* A message without a value cannot be measured: the service answers for the detector.
CheckSize ==
  /\ pc = "detect"
  /\ \/ IsNull /\ Detects("unknown", "error")
     \/ payload.size = "empty" /\ Detects("binary", "empty_message")
     \/ payload.size = "oversized" /\ Detects("binary", "size_check")
     \/ payload.size \in {"short", "normal"} /\ PassesOn("magic")
  /\ Unasked /\ UNCHANGED slow

DetectAvro ==
  /\ pc = "magic"
  /\ IF config.avro /\ HasMagic THEN Detects("avro", "magic_byte") ELSE PassesOn("json")
  /\ Unasked /\ UNCHANGED slow

Parses == payload.text # "undecodable" /\ payload.json # "no"

\* Mutant: bytes that are no UTF-8 are replaced, as the decoder does.
DetectJsonReplaced ==
  /\ pc = "json"
  /\ IF config.json /\ payload.json # "no" THEN Detects("json", "parse_attempt")
                                          ELSE PassesOn("registry")
  /\ Unasked /\ UNCHANGED slow

\* The text is parsed by a thread of the default executor, within a time limit.
DetectJson ==
  /\ pc = "json"
  /\ \/ /\ IF config.json /\ Parses THEN Detects("json", "parse_attempt")
                                    ELSE PassesOn("registry")
        /\ UNCHANGED slow
     \/ /\ config.json /\ payload.text # "undecodable"
        /\ PassesOn("registry")
        /\ slow' = TRUE
  /\ Unasked

EncodingMap == [AVRO |-> "avro", PROTOBUF |-> "protobuf", JSON |-> "json"]

\* Mutant: a type that is no encoding is passed on as it is.
EncodingOfUnmapped(type) == IF type \in DOMAIN EncodingMap THEN EncodingMap[type] ELSE type

EncodingOf(type) == IF type \in DOMAIN EncodingMap THEN EncodingMap[type] ELSE "unknown"

\* Mutant: a lookup that raises ends the detection.
DetectViaRegistryOrBinary ==
  /\ pc = "registry"
  /\ \/ /\ config.client /\ config.avro
        /\ \E a \in SchemaTypes \union {None} :
             /\ Answered(call.topic, a)
             /\ IF a = None THEN PassesOn("utf8")
                            ELSE Detects(EncodingOf(a), "schema_registry")
     \/ /\ config.client /\ config.avro /\ Raises(call.topic)
        /\ Detects("binary", "binary_fallback") /\ Unasked
     \/ ~(config.client /\ config.avro) /\ PassesOn("utf8") /\ Unasked
  /\ UNCHANGED slow

\* The latest schema of the topic decides, if the registry gives one.
DetectViaRegistry ==
  /\ pc = "registry"
  /\ \/ /\ config.client /\ config.avro
        /\ \E a \in SchemaTypes \union {None} :
             /\ Answered(call.topic, a)
             /\ IF a = None THEN PassesOn("utf8")
                            ELSE Detects(EncodingOf(a), "schema_registry")
     \/ /\ config.client /\ config.avro => Raises(call.topic)
        /\ PassesOn("utf8") /\ Unasked
  /\ UNCHANGED slow

DetectUtf8 ==
  /\ pc = "utf8"
  /\ \/ /\ IF config.utf8 /\ payload.text = "printable"
           THEN Detects("utf8_text", "utf8_decode")
           ELSE Detects("binary", "binary_fallback")
        /\ UNCHANGED slow
     \/ /\ config.utf8
        /\ Detects("binary", "binary_fallback")
        /\ slow' = TRUE
  /\ Unasked

-----------------------------------------------------------------------------
(* EncodingValidator.validate_message *)

Target == IF call.declared = None THEN detected.encoding ELSE call.declared

Validates(v) ==
  /\ pc = "validate" /\ pc' = "decode"
  /\ validated' = v
  /\ UNCHANGED <<config, call, detected, decoded, slow>>

\* Unknown encodings, and whatever is asked of a message without a value.
RejectUnknown ==
  /\ IsNull \/ Target \in {"unknown", "bogus"}
  /\ Validates(Invalid("unknown"))
  /\ Unasked

ValidateJson ==
  /\ ~IsNull /\ Target = "json"
  /\ Validates(IF Parses THEN Valid("json") ELSE Invalid("json"))
  /\ Unasked

\* Mutant: a schema the registry does not know is good enough.
ValidateAvroUnchecked ==
  /\ ~IsNull /\ Target = "avro"
  /\ IF HasMagic /\ config.client
     THEN \/ Raises(payload.id) /\ Validates(Invalid("avro")) /\ Unasked
          \/ \E a \in SchemaTypes \union {None} :
               Answered(payload.id, a) /\ Validates(Valid("avro"))
     ELSE Validates(IF HasMagic THEN Valid("avro") ELSE Invalid("avro")) /\ Unasked

\* The magic byte and, if there is a registry, a schema with the id; its type is
\* not looked at.
ValidateAvro ==
  /\ ~IsNull /\ Target = "avro"
  /\ IF HasMagic /\ config.client
     THEN \/ Raises(payload.id) /\ Validates(Invalid("avro")) /\ Unasked
          \/ \E a \in SchemaTypes \union {None} :
               /\ Answered(payload.id, a)
               /\ Validates(IF a = None THEN Invalid("avro") ELSE Valid("avro"))
     ELSE Validates(IF HasMagic THEN Valid("avro") ELSE Invalid("avro")) /\ Unasked

\* Nothing of the message is looked at, only the topic's schema.
ValidateProtobuf ==
  /\ ~IsNull /\ Target = "protobuf"
  /\ IF config.client
     THEN \/ Raises(call.topic) /\ Validates(Invalid("protobuf")) /\ Unasked
          \/ \E a \in SchemaTypes \union {None} :
               /\ Answered(call.topic, a)
               /\ Validates(IF a = "PROTOBUF" THEN Valid("protobuf") ELSE Invalid("protobuf"))
     ELSE Validates(Valid("protobuf")) /\ Unasked

ValidateText ==
  /\ ~IsNull /\ Target \in {"utf8_text", "binary"}
  /\ Validates(IF Target = "utf8_text" /\ payload.text = "undecodable"
               THEN Invalid("utf8_text") ELSE Valid(Target))
  /\ Unasked

-----------------------------------------------------------------------------
(* EncodingDecoder.decode_for_display: by the detected encoding *)

Decodes(success) ==
  /\ pc = "decode" /\ pc' = "done"
  /\ decoded' = success
  /\ UNCHANGED <<config, call, detected, validated, slow>>

\* The decoder's error handler measures the message, and so does the one of
\* process_message: both raise once more.
DecodeNull ==
  /\ pc = "decode" /\ IsNull
  /\ pc' = "raised"
  /\ UNCHANGED <<config, cached, callVars>>

DecodeJson ==
  /\ detected.encoding = "json"
  /\ Decodes(payload.json = "shown")
  /\ Unasked

\* The id is looked up once more, whatever the first byte is.
DecodeAvro ==
  /\ detected.encoding = "avro"
  /\ IF HasId /\ config.client
     THEN \/ Raises(payload.id) /\ Decodes(FALSE) /\ Unasked
          \/ \E a \in SchemaTypes \union {None} : Answered(payload.id, a) /\ Decodes(TRUE)
     ELSE Decodes(HasId) /\ Unasked

DecodeRaw ==
  /\ detected.encoding \in {"protobuf", "utf8_text", "binary"}
  /\ Decodes(TRUE)
  /\ Unasked

DecodeUnknown ==
  /\ detected.encoding = "unknown" /\ ~IsNull
  /\ Decodes(FALSE)
  /\ Unasked

-----------------------------------------------------------------------------
(* Other calls, expiry, eviction and clear_cache() *)

Remember(k) ==
  /\ config.client
  /\ cached' = cached \union {k}
  /\ UNCHANGED <<config, pc, callVars>>

Forget(k) ==
  /\ cached' = cached \ {k}
  /\ UNCHANGED <<config, pc, callVars>>

-----------------------------------------------------------------------------
Detect == CheckSize \/ DetectAvro \/ DetectJson \/ DetectViaRegistry \/ DetectUtf8

Validate ==
  RejectUnknown \/ ValidateJson \/ ValidateAvro \/ ValidateProtobuf \/ ValidateText

Decode == DecodeNull \/ DecodeJson \/ DecodeAvro \/ DecodeRaw \/ DecodeUnknown

Next ==
  \/ \E c \in Calls : Receive(c)
  \/ Detect \/ Validate \/ Decode
  \/ \E k \in Keys : Remember(k) \/ Forget(k)

Spec == Init /\ [][Next]_vars

-----------------------------------------------------------------------------
(* Properties *)

\* During this call the registry has given, for this key, a schema of one of these types.
Confirmed(k, types) == \E a \in answers : a.key = k /\ a.type \in types

\* Every variable holds a value the code can produce.
TypeOK ==
  /\ config \in Configs
  /\ cached \subseteq Keys
  /\ pc \in States
  /\ call \in Calls
  /\ detected \in [encoding : Encodings, method : Methods]
  /\ validated \in [valid : BOOLEAN, encoding : Encodings]
  /\ decoded \in BOOLEAN /\ slow \in BOOLEAN
  /\ answers \subseteq [key : Keys, type : SchemaTypes \union {None}]

\* A message is reported as binary for want of anything better only if none of the
\* three layers that read its bytes, Avro's, JSON's and that of UTF-8, is enabled and
\* fits it, or a parse or decode has timed out: whatever the registry answers, and a
\* lookup that raises, ends no layer but its own.  Protobuf is read by none of them:
\* whatever config.protobuf says, a message is Protobuf on the word of its topic's
\* schema alone, and may be reported as binary for want of it.
BinaryIsLastResort ==
  /\ detected.method = "binary_fallback" =>
       /\ ~(config.avro /\ HasMagic)
       /\ slow \/ ~(config.json /\ Parses)
       /\ slow \/ ~(config.utf8 /\ payload.text = "printable")
  /\ detected.encoding = "protobuf" => Confirmed(call.topic, {"PROTOBUF"})

\* A message whose encoding was read off its bytes (and not taken from a schema of
\* its topic) is valid in that encoding, however detection got there; an Avro
\* message only if the registry can confirm its schema.
DetectedIsValid ==
  pc \in {"decode", "done"} /\ call.declared = None
    /\ detected.method \notin {"schema_registry", "magic_byte", "error"}
  => validated = Valid(detected.encoding)

\* What is reported valid is the declared encoding, if one is declared, and one of
\* these: text that reads as such; an Avro message with its magic byte whose schema, of
\* whatever type, the registry has given during this very call or there is no registry
\* client; any bytes on a topic to which it has given a Protobuf schema during this
\* call; any bytes at all as binary and, without a registry client, as Protobuf.
ValidMeansReadable ==
  validated.valid =>
    /\ call.declared \in {None, validated.encoding}
    /\ \/ validated.encoding = "json" /\ Parses
       \/ validated.encoding = "utf8_text" /\ payload.text # "undecodable"
       \/ /\ validated.encoding = "avro" /\ HasMagic
          /\ config.client => Confirmed(payload.id, SchemaTypes)
       \/ /\ validated.encoding = "protobuf"
          /\ config.client => Confirmed(call.topic, {"PROTOBUF"})
       \/ validated.encoding = "binary"

\* decode_for_display returns a "DecodeResult with decoded content": an Avro message
\* whose schema the registry has confirmed is decoded.
ConfirmedAvroIsDecoded ==
  pc = "done" /\ detected.encoding = "avro" /\ validated = Valid("avro") => decoded

=============================================================================

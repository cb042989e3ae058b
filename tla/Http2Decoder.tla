---------------------------- MODULE Http2Decoder ----------------------------
(***************************************************************************)
(* The HTTP/2 decoder (io/proto/http2/decoder.h) as an operator: what one  *)
(* round of the loop of decode may do with a decoder and the bytes that are *)
(* left of the buffer it was given.  The bytes themselves are arbitrary, so *)
(* only their number is kept, and what is read from them is any value of   *)
(* the sets below.                                                         *)
(*                                                                         *)
(* A decoder has a state, the length, the type, the flags and the stream of *)
(* the frame.  An outcome has the decoder and the bytes after the round,    *)
(* whether decode goes on, and what the delegate was told.                  *)
(***************************************************************************)
EXTENDS Naturals

CONSTANTS
  Lengths,     \* lengths that frame headers have
  FrameTypes,  \* types that they have, a subset of 0 .. 10
  FlagSets,    \* flags that they have, of ACK, PADDED and PRIORITY
  Streams      \* stream ids that they have

\* constants.h
PrefaceLength == 24
FrameHeaderSize == 9
SettingSize == 6
MaxAllowedFrameSize == 16777215
MaxKnownFrame == 9
Data == 0
Headers == 1
Priority == 2
RstStream == 3
Settings == 4
PushPromise == 5
Ping == 6
GoAway == 7
WindowUpdate == 8

\* Stands for 2^32 - 1: more than any buffer has, and no multiple of a setting.
Wrapped == 2147483647

NoFrame == [length |-> 0, type |-> 255, flags |-> {}, stream |-> 0]

NewDecoder == [state |-> "preface", frame |-> NoFrame]

Outcome(d, in, loop, told) == [dec |-> d, in |-> in, loop |-> loop, told |-> told]

In(d, state) == [d EXCEPT !.state = state]

\* A frame that was read is done; its fields are not used any more.
HeaderNext == [state |-> "header", frame |-> NoFrame]

----------------------------------------------------------------------------
\* A byte that is not the preface's ends the connection.  Without enough bytes
\* the loop goes on with none left.
ReadConnectionPreface(d, in) ==
  LET missing == PrefaceLength - d.frame.length
  IN (IF in = 0 THEN {} ELSE {Outcome(In(d, "error"), 0, FALSE, "error")})
     \cup {IF in >= missing
           THEN Outcome(HeaderNext, in - missing, FALSE, "nothing")
           ELSE Outcome([d EXCEPT !.frame.length = @ + in], 0, TRUE, "nothing")}

IsStreamIdValid(f) ==
  CASE f.type \in {Data, Headers, Priority, RstStream, PushPromise} -> f.stream # 0
    [] f.type \in {Settings, Ping, GoAway} -> f.stream = 0
    [] OTHER -> TRUE

\* The comparisons for DATA and PUSH_PROMISE are as the compiler reads them.
IsLengthValid(f) ==
  LET padded == IF "PADDED" \in f.flags THEN 1 ELSE 0
  IN CASE f.type = Data -> f.length >= padded
       [] f.type = Headers -> f.length >= padded + (IF "PRIORITY" \in f.flags THEN 5 ELSE 0)
       [] f.type = Priority -> f.length = 5
       [] f.type \in {RstStream, WindowUpdate} -> f.length = 4
       [] f.type = Settings -> IF "ACK" \in f.flags THEN f.length = 0
                                                    ELSE f.length % SettingSize = 0
       [] f.type = Ping -> f.length = 8
       [] f.type = GoAway -> f.length >= 8
       [] OTHER -> TRUE

ValidateFrameHeader(f) ==
  /\ f.length < MaxAllowedFrameSize
  /\ f.type <= MaxKnownFrame
  /\ IsStreamIdValid(f)
  /\ IsLengthValid(f)

StateFromType(f) ==
  CASE f.type = Data -> "data" [] f.type = Settings -> "settings" [] OTHER -> "other"

Frames == [length : Lengths, type : FrameTypes, flags : FlagSets, stream : Streams]

ReadFrameHeader(d, in) ==
  IF in < FrameHeaderSize THEN {Outcome(d, in, FALSE, "nothing")}
  ELSE {IF ~ValidateFrameHeader(f)
        THEN Outcome(In(d, "error"), in - FrameHeaderSize, FALSE, "error")
        ELSE Outcome([state |-> IF "PADDED" \in f.flags THEN "padding" ELSE StateFromType(f),
                      frame |-> f], in - FrameHeaderSize, TRUE, "nothing") : f \in Frames}

\* Any type of frame may have the flag; a length of 0 wraps.
ReadFramePadding(d, in) ==
  {IF in = 0 THEN Outcome(d, in, TRUE, "nothing")
   ELSE Outcome([state |-> StateFromType(d.frame),
                 frame |-> [d.frame EXCEPT !.length = IF @ = 0 THEN Wrapped ELSE @ - 1]],
                in - 1, TRUE, "nothing")}

\* skip_bytes of the payload, or of what there is of it.
Skipped(in, length) == IF in > length THEN in - length ELSE 0

ReadDataFrame(d, in) ==
  LET left == Skipped(in, d.frame.length)
  IN {Outcome(HeaderNext, left, left > 0, "nothing")}

ReadOtherFrame(d, in) ==
  LET left == Skipped(in, d.frame.length)
  IN {Outcome(HeaderNext, left, left > d.frame.length, "nothing")}

\* The checks of read_settings_frame.  Whatever they find, the next state is
\* that of a frame header.
ReadSettingsFrame(d, in) ==
  LET f == d.frame
  IN {CASE f.length = 0 ->
             Outcome(HeaderNext, in, FALSE, IF "ACK" \in f.flags THEN "ack" ELSE "nothing")
        [] f.length # 0 /\ ("ACK" \in f.flags \/ f.length % SettingSize # 0 \/ f.stream # 0) ->
             Outcome(HeaderNext, in, FALSE, "error")
        [] OTHER -> Outcome(In(d, "entries"), in, TRUE, "nothing")}

\* Its loop: a setting may be known, unknown (its bytes are then not taken off
\* the length) or out of range.
ReadSetting(d, in) ==
  IF d.frame.length > 0 /\ in >= SettingSize
  THEN {Outcome([d EXCEPT !.frame.length = @ - SettingSize], in - SettingSize, TRUE, "setting"),
        Outcome(d, in - SettingSize, TRUE, "nothing"),
        Outcome(HeaderNext, in - SettingSize, FALSE, "error")}
  ELSE {Outcome(HeaderNext, in, in > d.frame.length,
                IF d.frame.length = 0 THEN "end" ELSE "nothing")}

\* The switch of decode.
DecodeRound(d, in) ==
  CASE d.state = "preface"  -> ReadConnectionPreface(d, in)
    [] d.state = "header"   -> ReadFrameHeader(d, in)
    [] d.state = "padding"  -> ReadFramePadding(d, in)
    [] d.state = "data"     -> ReadDataFrame(d, in)
    [] d.state = "settings" -> ReadSettingsFrame(d, in)
    [] d.state = "entries"  -> ReadSetting(d, in)
    [] d.state = "other"    -> ReadOtherFrame(d, in)
    [] d.state = "error"    -> {Outcome(d, in, FALSE, "nothing")}

\* The loop of decode goes on without anything to read: it never ends.
Spins(d, in) == in = 0 /\ d.state \in {"preface", "padding"}
=============================================================================

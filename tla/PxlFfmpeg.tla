------------------------------ MODULE PxlFfmpeg -----------------------------
(***************************************************************************)
(* The animation encoder and decoder of the FFmpeg plugin (libpxlenc.c,    *)
(* libpxldec.c), from the frames a caller sends to the frames the decoder  *)
(* hands out.  FFmpeg is external: it holds one frame at most between a    *)
(* caller and the encoder, and says EAGAIN or EOF when it has none; the    *)
(* muxer and the demuxer pass the one packet on as it is.  apxl_encode and *)
(* apxl_decode, with a module of their own, do all or nothing here.        *)
(*                                                                         *)
(* A frame is [id, canvas, dur, meta]: the `canvas' stands for size and    *)
(* pixel format, `dur' is in units of the encoder's time base, `meta' says *)
(* whether it has side data worth a record.                                *)
(***************************************************************************)
EXTENDS Counting

CONSTANTS
  FfFrames,   \* what a caller sends: [canvas, dur, meta]
  MaxSent,    \* bound: how many
  FirstCap,   \* the frames array starts with (16)
  TimeBase,   \* [num, den] of the encoder
  MaxTerm,    \* of a delay (65535)
  Ticks,      \* PXL_ANIM_TIMEBASE
  FfFails     \* the outcomes of an allocation

FfmpegAssumption ==
  /\ \A f \in FfFrames : f.meta \in BOOLEAN /\ f.dur \in Int
  /\ MaxSent \in Nat /\ FirstCap \in Nat \ {0}
  /\ TimeBase.num \in Nat \ {0} /\ TimeBase.den \in Nat \ {0}
  /\ MaxTerm \in Nat /\ Ticks \in Nat

ASSUME FfmpegAssumption

VARIABLES
  queued, draining, sent,  \* FFmpeg's side of the encoder
  frame,     \* the frame taken from it
  enc_at,    \* where libpxl_anim_encode_frame is, or "closed"
  enc_ret,   \* what it returned last
  enc,       \* LibPxlEncodeContext
  accepted,  \* the frames it appended
  packets,   \* what it emitted
  fed,       \* the decoder's packet: none, sent, taken
  dec_at,    \* where libpxl_anim_receive_frame is, or "closed"
  dec_ret, dec,
  shown,     \* the frames it returned
  av_heap    \* the blocks the two contexts hold

encVars == <<queued, draining, sent, frame, enc_at, enc_ret, enc, accepted, packets>>
decVars == <<fed, dec_at, dec_ret, dec, shown>>
ffmpegVars == <<encVars, decVars, av_heap>>

NoFrame == [id |-> 0]

FfmpegInit ==
  /\ queued = NoFrame /\ draining = FALSE /\ sent = 0
  /\ frame = NoFrame /\ enc_at = "idle" /\ enc_ret = "none"
  /\ enc = [ frames |-> <<>>, frame_count |-> 0, frame_cap |-> 0, n_filled |-> 0,
             canvas |-> 0, metadata |-> 0, eof |-> FALSE ]
  /\ accepted = <<>> /\ packets = <<>>
  /\ fed = "none" /\ dec_at = "idle" /\ dec_ret = "none"
  /\ dec = [have_anim |-> FALSE, next_frame |-> 1, next_pts |-> 0]
  /\ shown = <<>> /\ av_heap = {}

------------------------------------------------------------------------------
(* The caller of the encoder.                                                *)

SendFrame ==
  /\ enc_at = "idle" /\ ~draining /\ queued = NoFrame /\ sent < MaxSent
  /\ \E f \in FfFrames :
       queued' = [id |-> sent + 1, canvas |-> f.canvas, dur |-> f.dur, meta |-> f.meta]
  /\ sent' = sent + 1
  /\ UNCHANGED <<decVars, av_heap, draining, frame, enc_at, enc_ret, enc, accepted, packets>>

SendEnd ==
  /\ enc_at = "idle" /\ ~draining
  /\ draining' = TRUE
  /\ UNCHANGED <<decVars, av_heap, queued, sent, frame, enc_at, enc_ret, enc, accepted, packets>>

------------------------------------------------------------------------------
(* libpxl_anim_encode_frame                                                  *)

EncReturns(ret) == enc_at' = "idle" /\ enc_ret' = ret /\ frame' = NoFrame

Receive ==
  /\ enc_at = "idle"
  /\ \/ enc_at' = (IF enc.eof THEN "encode" ELSE "take") /\ UNCHANGED <<enc_ret, frame>>
     \/ ~enc.eof /\ TRUE \in FfFails /\ EncReturns("ENOMEM")
  /\ UNCHANGED <<decVars, av_heap, queued, draining, sent, enc, accepted, packets>>

\* ff_encode_get_frame
TakeFrame ==
  /\ enc_at = "take"
  /\ \/ /\ queued # NoFrame
        /\ frame' = queued /\ queued' = NoFrame
        /\ enc_at' = "append" /\ UNCHANGED <<enc, enc_ret>>
     \/ /\ queued = NoFrame /\ draining
        /\ enc' = [enc EXCEPT !.eof = TRUE]
        /\ enc_at' = "encode" /\ UNCHANGED <<queued, frame, enc_ret>>
     \/ /\ queued = NoFrame /\ ~draining
        /\ EncReturns("EAGAIN") /\ UNCHANGED <<queued, enc>>
  /\ UNCHANGED <<decVars, av_heap, draining, sent, accepted, packets>>

\* libpxl_anim_append: a frame that fails is gone, those before it stay.
GrowFrames ==
  /\ enc_at = "append" /\ enc.frame_count = enc.frame_cap
  /\ \/ TRUE \in FfFails /\ EncReturns("ENOMEM") /\ UNCHANGED <<enc, av_heap>>
     \/ /\ enc' = [enc EXCEPT !.frame_cap = IF @ = 0 THEN FirstCap ELSE 2 * @]
        /\ av_heap' = av_heap \cup {<<"frames", 0>>}
        /\ UNCHANGED <<enc_at, enc_ret, frame>>
  /\ UNCHANGED <<decVars, queued, draining, sent, accepted, packets>>

\* av_reduce: the nearest fraction with small terms, 0 included.
Reduced(num, den) ==
  LET Off(q) == LET off == q[1] * den - num * q[2]      \* times 1 / (den * q[2])
                IN  IF off < 0 THEN -off ELSE off
      all == (0..MaxTerm) \X (1..MaxTerm)
  IN  CHOOSE q \in all : \A r \in all :
        \/ Off(q) * r[2] < Off(r) * q[2]
        \/ Off(q) * r[2] = Off(r) * q[2] /\ q[2] <= r[2]

Duration(f) == IF f.dur > 0 THEN f.dur ELSE 1

Delay(f) ==
  LET q == Reduced(Duration(f) * TimeBase.num, TimeBase.den)
  IN  [num |-> IF q[1] > 0 THEN q[1] ELSE 1, den |-> q[2]]

FitsCanvas == enc.frame_count = 0 \/ frame.canvas = enc.canvas

\* Its pixels, and its records if it has side data.
FrameBlocks(f) == {<<"pixels", f.id>>} \cup (IF f.meta THEN {<<"records", f.id>>} ELSE {})

AppendFrame ==
  /\ enc_at = "append" /\ enc.frame_count < enc.frame_cap
  /\ \/ /\ TRUE \in FfFails /\ EncReturns("ENOMEM")
        /\ UNCHANGED <<enc, av_heap, accepted>>
     \/ /\ ~FitsCanvas /\ EncReturns("EINVAL")
        /\ UNCHANGED <<enc, av_heap, accepted>>
     \/ /\ FitsCanvas
        /\ LET first == enc.frame_count = 0
           IN  enc' = [enc EXCEPT
                 !.frames = Append(SubSeq(@, 1, enc.frame_count),
                              [ id |-> frame.id, delay |-> Delay(frame),
                                meta |-> frame.meta /\ ~first ]),
                 !.canvas = frame.canvas,
                 !.metadata = IF first /\ frame.meta THEN frame.id ELSE IF first THEN 0 ELSE @,
                 !.frame_count = @ + 1,
                 !.n_filled = enc.frame_count + 1]
        /\ av_heap' = av_heap \cup FrameBlocks(frame)
        /\ accepted' = Append(accepted, frame)
        /\ frame' = NoFrame /\ enc_at' = "take" /\ UNCHANGED enc_ret
  /\ UNCHANGED <<decVars, queued, draining, sent, packets>>

PacketOutAgain == enc

\* One packet holds it all; n_filled remembers what is to be freed.
PacketOut == [enc EXCEPT !.frame_count = 0]

\* apxl_encode and ff_get_encode_buffer
EncodeFrames ==
  /\ enc_at = "encode"
  /\ \/ /\ enc.frame_count = 0 /\ EncReturns("EOF")
        /\ UNCHANGED <<enc, packets>>
     \/ /\ enc.frame_count > 0 /\ TRUE \in FfFails
        /\ EncReturns("ENOMEM")
        /\ UNCHANGED <<enc, packets>>
     \/ /\ enc.frame_count > 0 /\ EncReturns("packet")
        /\ packets' = Append(packets, SubSeq(enc.frames, 1, enc.frame_count))
        /\ enc' = PacketOut
  /\ UNCHANGED <<decVars, av_heap, queued, draining, sent, accepted>>

FilledWhileCounted == 1..enc.frame_count

\* The entries libpxl_encode_close looks at.
Filled == 1..enc.n_filled

CloseEncoder ==
  /\ enc_at = "idle"
  /\ av_heap' = av_heap \
       ( (UNION { {<<"pixels", enc.frames[k].id>>}
                    \cup (IF enc.frames[k].meta THEN {<<"records", enc.frames[k].id>>} ELSE {})
                  : k \in Filled })
           \cup {<<"frames", 0>>, <<"records", enc.metadata>>} )
  /\ enc_at' = "closed"
  /\ UNCHANGED <<decVars, queued, draining, sent, frame, enc_ret, enc, accepted, packets>>

------------------------------------------------------------------------------
(* libpxl_anim_receive_frame                                                 *)

\* A packet of the encoder, through a file.
FeedPacket ==
  /\ fed = "none" /\ packets # <<>> /\ dec_at = "idle"
  /\ fed' = "sent"
  /\ UNCHANGED <<encVars, av_heap, dec_at, dec_ret, dec, shown>>

DecReturns(ret) == dec_at' = "idle" /\ dec_ret' = ret

\* Decodes on the first call that gets the packet, and goes on to hand out.
ReceiveFrame ==
  /\ dec_at = "idle"
  /\ \/ dec.have_anim /\ dec_at' = "hand_out" /\ UNCHANGED <<dec_ret, dec, fed, av_heap>>
     \/ /\ ~dec.have_anim
        /\ \/ TRUE \in FfFails /\ DecReturns("ENOMEM") /\ UNCHANGED fed
           \/ fed = "none" /\ DecReturns("EAGAIN") /\ UNCHANGED fed
           \/ fed = "taken" /\ DecReturns("EOF") /\ UNCHANGED fed
           \/ fed = "sent" /\ TRUE \in FfFails /\ DecReturns("INVALIDDATA") /\ fed' = "taken"
        /\ UNCHANGED <<dec, av_heap>>
     \/ /\ ~dec.have_anim /\ fed = "sent" /\ fed' = "taken"
        /\ dec' = [dec EXCEPT !.have_anim = TRUE, !.next_frame = 1]
        /\ av_heap' = av_heap \cup {<<"anim", 0>>}
        /\ dec_at' = "hand_out" /\ UNCHANGED dec_ret
  /\ UNCHANGED <<encVars, shown>>

\* pxl_frame_from_image and pxl_apply_metadata may fail: the frame is next again.
HandOut ==
  /\ dec_at = "hand_out"
  /\ LET anim == packets[1] IN
     \/ /\ dec.next_frame > Len(anim) /\ DecReturns("EOF")
        /\ UNCHANGED <<dec, shown>>
     \/ /\ dec.next_frame <= Len(anim) /\ TRUE \in FfFails /\ DecReturns("ENOMEM")
        /\ UNCHANGED <<dec, shown>>
     \/ /\ dec.next_frame <= Len(anim) /\ DecReturns("frame")
        /\ LET af == anim[dec.next_frame]
               duration == (af.delay.num * Ticks) \div af.delay.den
           IN  /\ shown' = Append(shown, [id |-> af.id, pts |-> dec.next_pts, duration |-> duration])
               /\ dec' = [dec EXCEPT !.next_frame = @ + 1, !.next_pts = @ + duration]
  /\ UNCHANGED <<encVars, fed, av_heap>>

CloseDecoder ==
  /\ dec_at = "idle"
  /\ av_heap' = av_heap \ {<<"anim", 0>>}
  /\ dec_at' = "closed"
  /\ UNCHANGED <<encVars, fed, dec_ret, dec, shown>>

FfmpegNext ==
  \/ SendFrame \/ SendEnd
  \/ Receive \/ TakeFrame \/ GrowFrames \/ AppendFrame \/ EncodeFrames \/ CloseEncoder
  \/ FeedPacket \/ ReceiveFrame \/ HandOut \/ CloseDecoder

FfmpegSpec == FfmpegInit /\ [][FfmpegNext]_ffmpegVars

------------------------------------------------------------------------------
(* Properties                                                                *)

\* The encoder holds what its entries and its promoted metadata own, before the packet
\* and after it, and both contexts hold nothing once they are closed.
ContextsOwn ==
  /\ enc.n_filled <= enc.frame_cap /\ enc.frame_count \in {0, enc.n_filled}
  /\ { b \in av_heap : b[1] # "anim" } =
       IF enc_at = "closed" THEN {}
       ELSE (UNION { FrameBlocks(accepted[k]) : k \in DOMAIN accepted })
              \cup (IF enc.frame_cap > 0 THEN {<<"frames", 0>>} ELSE {})
  /\ <<"anim", 0>> \in av_heap <=> dec.have_anim /\ dec_at # "closed"

\* A delay that 16-bit terms can tell.
Exact(f) ==
  \E n, d \in 1..MaxTerm : n * TimeBase.den = Duration(f) * TimeBase.num * d

\* The time at which frame k of those accepted is due, in units of 1 / TimeBase.den.
Due(k) ==
  SumTo([j \in DOMAIN accepted |-> Duration(accepted[j]) * TimeBase.num], k - 1)

\* There is one packet, with the frames that were accepted, whatever was refused or
\* failed on the way, and no end of stream before it.
OnePacket ==
  /\ Len(packets) <= 1
  /\ packets # <<>> =>
       [k \in DOMAIN packets[1] |-> packets[1][k].id] = [k \in DOMAIN accepted |-> accepted[k].id]
  /\ enc_ret = "EOF" /\ accepted # <<>> => packets # <<>>

\* The decoder hands each of them out once and in order, whatever failed in between; it
\* ends behind the last.
HandedOutInOrder ==
  /\ \A k \in DOMAIN shown : shown[k].id = accepted[k].id
  /\ (dec_ret = "EOF" /\ dec.have_anim) => Len(shown) = Len(accepted)

\* The pictures are due within a tick per frame of the time they were sent for.
InTime(k, pts) ==
  (\A j \in 1..(k - 1) : Exact(accepted[j])) =>
    Due(k) * Ticks - pts * TimeBase.den \in 0..((k - 1) * TimeBase.den)

HandedOutInTime == \A k \in DOMAIN shown : InTime(k, shown[k].pts)

FramesComeBack == OnePacket /\ HandedOutInOrder /\ HandedOutInTime

------------------------------------------------------------------------------
(* Why they hold                                                             *)

\* The frames a caller can have sent, and the entries the encoder makes of them.
Sent ==
  { [id |-> n, canvas |-> f.canvas, dur |-> f.dur, meta |-> f.meta] :
      n \in 1..MaxSent, f \in FfFrames }

Entries ==
  { [id |-> f.id, delay |-> Delay(f), meta |-> has_meta] :
      f \in Sent, has_meta \in BOOLEAN }

\* What is under way to the encoder, and that nothing is taken after the end.
QueueInOrder ==
  /\ sent \in 0..MaxSent
  /\ queued \in Sent \cup {NoFrame}
  /\ enc_at \in {"idle", "take", "append", "encode", "closed"}
  /\ enc_at = "append" => frame \in Sent
  /\ enc_at \in {"take", "append"} => ~enc.eof
  /\ enc_at = "encode" \/ enc_ret = "EOF" => enc.eof

\* Entry k is the frame that was accepted as k-th, with its records, except that those
\* of the first have been promoted to the animation's.
EntriesAreAccepted ==
  /\ enc \in [ frames : Seq(Entries), frame_count : Nat, frame_cap : Nat, n_filled : Nat,
               canvas : {0} \cup {f.canvas : f \in FfFrames}, metadata : 0..MaxSent,
               eof : BOOLEAN ]
  /\ accepted \in Seq(Sent)
  /\ enc.n_filled = Len(accepted) /\ Len(enc.frames) = Len(accepted)
  /\ \A k \in DOMAIN accepted :
       /\ enc.frames[k].id = accepted[k].id /\ enc.frames[k].delay = Delay(accepted[k])
       /\ enc.frames[k].meta <=> accepted[k].meta /\ k > 1
  /\ accepted # <<>> => enc.metadata = IF accepted[1].meta THEN accepted[1].id ELSE 0

\* Frames are counted until the packet is out, which has them all.
PacketHasAll ==
  /\ packets = <<>> => enc.frame_count = enc.n_filled
  /\ packets # <<>> =>
       /\ packets = <<enc.frames>> /\ enc.frame_count = 0
       /\ enc.n_filled > 0 /\ enc.eof

\* The decoder's place in the packet is behind what it has shown.
CursorInPacket ==
  /\ fed # "none" => packets # <<>>
  /\ dec.have_anim \/ dec_at = "hand_out" => dec.have_anim /\ fed = "taken"
  /\ DOMAIN dec = {"have_anim", "next_frame", "next_pts"}
  /\ shown \in Seq({shown[k] : k \in DOMAIN shown})
  /\ dec.next_frame = Len(shown) + 1
  /\ shown # <<>> => dec.have_anim
  /\ Len(shown) <= Len(accepted)
  /\ dec_ret = "EOF" => fed = "taken" /\ (dec.have_anim => Len(shown) = Len(accepted))

\* And so will the next frame be.
NextInTime ==
  /\ (\A j \in 1..(dec.next_frame - 1) : Exact(accepted[j])) => dec.next_pts \in Nat
  /\ InTime(dec.next_frame, dec.next_pts)

FfmpegInv ==
  /\ QueueInOrder /\ EntriesAreAccepted /\ PacketHasAll /\ CursorInPacket
  /\ ContextsOwn /\ OnePacket /\ HandedOutInOrder
==============================================================================

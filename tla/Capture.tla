------------------------------ MODULE Capture -------------------------------
(***************************************************************************)
(* The host's frame source (server/capture.cpp, ScreenDuplicator) and the  *)
(* loop of stream_to_client that calls it: the search for an output, the   *)
(* Direct3D objects, one frame at a time from DXGI or, when that cannot be *)
(* had, from GDI, and what each failure on the way must give back.         *)
(*                                                                         *)
(* Every call to the system may fail.  The desktop changes at any time; a  *)
(* new resolution may invalidate the duplication, or show in the size of   *)
(* the next frame.  Of a picture, its width and which picture it is are    *)
(* told apart.                                                             *)
(***************************************************************************)
EXTENDS Naturals, SequencesExt

CONSTANTS Widths,  \* desktop widths in pixels, odd ones among them
          Pics,    \* pictures the desktop can show
          Adapters, Outputs  \* how many graphics adapters, and outputs of one, there are at most

ASSUME SizesAssumption == Widths \subseteq Nat \ {0} /\ Widths # {}
ASSUME PicsAssumption == Pics \subseteq Nat \ {0} /\ Pics # {}
ASSUME CountsAssumption == Adapters \in Nat /\ Outputs \in Nat

VARIABLES
    pc, first,      \* where the streaming thread is; its first initialize()
    refs,           \* references and handles held on each kind of system object
    layout,         \* what the factory enumerates: the outputs of each adapter
    ai, oi, best,   \* the search's loop counters and best_output
    dup,            \* device_, context_ and duplication_ are set
    staging,        \* staging_width_ of staging_, 0 when it is null
    gdi, delivered, prev,   \* use_gdi_, delivered_first_, prev_frame_
    desk,           \* the desktop
    news, valid,    \* what AcquireNextFrame has to tell; the duplication is not lost
    out, shot,      \* the picture last handed out; the desktop the last call saw
    result          \* what the last acquire returned

search == <<layout, ai, oi, best>>
fields == <<dup, staging, gdi, delivered, prev>>
screen == <<desk, news, valid>>
seen == <<out, shot, result>>
vars == <<pc, first, refs, search, fields, screen, seen>>

Object == {"factory", "adapter", "output", "device", "context", "duplication",
           "staging", "resource", "texture", "frame", "screenDc", "memoryDc", "bitmap"}
Kind == {"detached", "attached", "primary"}
Layouts == SeqOf(SeqOf(Kind, Outputs), Adapters)
NoOutput == <<0, 0>>
NoPicture == [width |-> 0, pic |-> 0]
Desktop == [width : Widths, pic : Pics]

\* Even dimensions, as NV12 needs them.
Cropped(d) == [d EXCEPT !.width = @ - (@ % 2)]

CaptureTypeOK ==
    /\ pc \in {"over", "init", "adapters", "outputs", "device", "duplicate", "fallback",
               "ready", "resource", "texture", "map", "dc", "memory", "bitmap", "blit",
               "closing"}
    /\ first \in BOOLEAN
    /\ refs \in [Object -> 0 .. 2]
    /\ layout \in Layouts /\ ai \in 0 .. Adapters + 1 /\ oi \in 0 .. Outputs + 1
    /\ best \in (1 .. Adapters) \X (1 .. Outputs) \cup {NoOutput}
    /\ dup \in BOOLEAN /\ staging \in Widths \cup {0}
    /\ gdi \in BOOLEAN /\ (gdi => ~dup)
    /\ delivered \in BOOLEAN
    /\ prev \in {Cropped(d) : d \in Desktop} \cup {NoPicture}
    /\ desk \in Desktop /\ news \in {"none", "first", "present"} /\ valid \in BOOLEAN
    /\ out \in {Cropped(d) : d \in Desktop} \cup {NoPicture}
    /\ shot \in Desktop /\ result \in {"none", "Frame", "Idle", "Lost", "Error"}

Init ==
    /\ pc = "over" /\ first = TRUE /\ refs = [o \in Object |-> 0]
    /\ layout = <<>> /\ ai = 0 /\ oi = 0 /\ best = NoOutput
    /\ dup = FALSE /\ staging = 0 /\ gdi = FALSE /\ delivered = FALSE /\ prev = NoPicture
    /\ desk \in Desktop /\ news = "none" /\ valid = FALSE
    /\ out = NoPicture /\ shot = desk /\ result = "none"

Step(from, to) == pc = from /\ pc' = to

\* One reference is taken on each of these, and one given back on each of those.
Refs(taken, released) ==
    refs' = [o \in Object |-> refs[o] + (IF o \in taken THEN 1 ELSE 0)
                                      - (IF o \in released THEN 1 ELSE 0)]

\* The objects the fields name, which shutdown() releases.
Fields == (IF dup THEN {"device", "context", "duplication"} ELSE {})
             \cup (IF staging # 0 THEN {"staging"} ELSE {})

\* A wrong Shutdown: delivered_first_ survives.
ShutdownKeeps ==
    /\ dup' = FALSE /\ staging' = 0 /\ gdi' = FALSE /\ prev' = NoPicture
    /\ UNCHANGED delivered

Shutdown ==
    /\ dup' = FALSE /\ staging' = 0 /\ gdi' = FALSE /\ prev' = NoPicture
    /\ delivered' = FALSE

------------------------------------------------------------------------------
(* initialize.                                                              *)

Begin ==
    /\ Step("over", "init") /\ first' = TRUE
    /\ out' = NoPicture /\ result' = "none"
    /\ UNCHANGED <<refs, search, fields, screen, shot>>

CreateFactory(l) ==
    /\ Step("init", "adapters")
    /\ Shutdown /\ Refs({"factory"}, Fields)
    /\ layout' = l /\ ai' = 1 /\ oi' = 0 /\ best' = NoOutput
    /\ UNCHANGED <<first, screen, seen>>

CreateFactoryFails ==
    /\ Step("init", "fallback")
    /\ Shutdown /\ Refs({}, Fields)
    /\ UNCHANGED <<first, search, screen, seen>>

NextAdapter ==
    /\ Step("adapters", "outputs") /\ ai <= Len(layout)
    /\ Refs({"adapter"}, {}) /\ oi' = 1
    /\ UNCHANGED <<first, layout, ai, best, fields, screen, seen>>

IsPrimary(o) == o # NoOutput /\ layout[o[1]][o[2]] = "primary"

\* A wrong Better: the last primary wins.
BetterLast(o) ==
    /\ layout[o[1]][o[2]] # "detached"
    /\ best = NoOutput \/ IsPrimary(o)

\* An output that cannot be described counts as detached.
Better(o) ==
    /\ layout[o[1]][o[2]] # "detached"
    /\ best = NoOutput \/ (IsPrimary(o) /\ ~IsPrimary(best))

BestPair == {"output", "adapter"}
HeldBest == IF best = NoOutput THEN {} ELSE BestPair

\* The loop's own reference on the output is gone at the end of its turn.
NextOutput ==
    /\ Step("outputs", "outputs") /\ oi <= Len(layout[ai])
    /\ oi' = oi + 1
    /\ IF Better(<<ai, oi>>) THEN Refs(BestPair, HeldBest) /\ best' = <<ai, oi>>
                             ELSE UNCHANGED <<refs, best>>
    /\ UNCHANGED <<first, layout, ai, fields, screen, seen>>

OutputsDone ==
    /\ Step("outputs", "adapters") /\ oi > Len(layout[ai])
    /\ Refs({}, {"adapter"}) /\ ai' = ai + 1
    /\ UNCHANGED <<first, layout, oi, best, fields, screen, seen>>

AdaptersDone ==
    /\ Step("adapters", IF best = NoOutput THEN "fallback" ELSE "device")
    /\ ai > Len(layout)
    /\ Refs({}, {"factory"})
    /\ UNCHANGED <<first, search, fields, screen, seen>>

CreateDevice ==
    /\ Step("device", "duplicate")
    /\ Refs({"device", "context"}, {})
    /\ UNCHANGED <<first, search, fields, screen, seen>>

Forget == layout' = <<>> /\ ai' = 0 /\ oi' = 0 /\ best' = NoOutput

CreateDeviceFails ==
    /\ Step("device", "fallback")
    /\ Refs({}, HeldBest) /\ Forget
    /\ UNCHANGED <<first, fields, screen, seen>>

\* The duplication has a first frame to tell of, whether or not anything changes.
Duplicate ==
    /\ Step("duplicate", "ready")
    /\ Refs({"duplication"}, HeldBest) /\ Forget
    /\ dup' = TRUE /\ valid' = TRUE /\ news' = "first" /\ first' = FALSE
    /\ UNCHANGED <<staging, gdi, delivered, prev, desk, seen>>

\* A wrong DuplicateFails: the device is left behind.
DuplicateFailsLeak ==
    /\ Step("duplicate", "fallback")
    /\ Refs({}, HeldBest) /\ Forget
    /\ UNCHANGED <<first, fields, screen, seen>>

\* QueryInterface for IDXGIOutput1, or DuplicateOutput.
DuplicateFails ==
    /\ Step("duplicate", "fallback")
    /\ Refs({}, HeldBest \cup {"device", "context"}) /\ Forget
    /\ UNCHANGED <<first, fields, screen, seen>>

UseGdi ==
    /\ Step("fallback", "ready")
    /\ gdi' = TRUE /\ delivered' = FALSE /\ prev' = NoPicture /\ first' = FALSE
    /\ Forget
    /\ UNCHANGED <<refs, dup, staging, screen, seen>>

\* Neither: the stream ends if it has just begun, and is an error at the next
\* acquire if it goes on.
UseGdiFails ==
    /\ Step("fallback", IF first THEN "closing" ELSE "ready")
    /\ Forget
    /\ UNCHANGED <<first, refs, fields, screen, seen>>

------------------------------------------------------------------------------
(* acquire, and what its caller does next.                                  *)

Return(r) ==
    /\ result' = r
    /\ pc' = CASE r = "Lost" -> "init" [] r = "Error" -> "closing" [] OTHER -> "ready"

NothingToAcquire ==
    /\ pc = "ready" /\ ~gdi /\ ~dup /\ Return("Error")
    /\ UNCHANGED <<first, refs, search, fields, screen, out, shot>>

AcquireTimesOut ==
    /\ pc = "ready" /\ dup /\ valid /\ news = "none"
    /\ shot' = desk /\ Return("Idle")
    /\ UNCHANGED <<first, refs, search, fields, screen, out>>

AcquireFails ==
    /\ pc = "ready" /\ dup /\ Return("Lost")
    /\ UNCHANGED <<first, refs, search, fields, screen, out, shot>>

\* LastPresentTime is 0 when only the pointer has moved, and may be 0 in the first
\* frame of a duplication.
PointerMoved ==
    /\ pc = "ready" /\ dup /\ valid /\ news # "present" /\ delivered
    /\ shot' = desk /\ news' = "none" /\ Return("Idle")
    /\ UNCHANGED <<first, refs, search, fields, desk, valid, out>>

Acquired ==
    /\ Step("ready", "resource") /\ dup /\ valid
    /\ news = "none" => ~delivered
    /\ Refs({"resource", "frame"}, {})
    /\ shot' = desk /\ news' = "none" /\ result' = "none"
    /\ UNCHANGED <<first, search, fields, desk, valid, out>>

QueryTexture ==
    /\ Step("resource", "texture")
    /\ Refs({"texture"}, {"resource"})
    /\ UNCHANGED <<first, search, fields, screen, seen>>

QueryTextureFails ==
    /\ pc = "resource" /\ Return("Lost")
    /\ Refs({}, {"resource", "frame"})
    /\ UNCHANGED <<first, search, fields, screen, out, shot>>

\* create_staging when the size has changed, then the copy.
Stage ==
    /\ Step("texture", "map")
    /\ Refs({"staging"}, {"texture"} \cup (IF staging # 0 THEN {"staging"} ELSE {}))
    /\ staging' = shot.width
    /\ UNCHANGED <<first, search, dup, gdi, delivered, prev, screen, seen>>

\* A wrong StageFails: staging_ goes on naming the texture that was released.
StageFailsDangling ==
    /\ pc = "texture" /\ staging # shot.width /\ Return("Error")
    /\ Refs({}, {"texture", "frame"} \cup (IF staging # 0 THEN {"staging"} ELSE {}))
    /\ UNCHANGED <<first, search, fields, screen, out, shot>>

\* The old staging texture is released before the new one is made.
StageFails ==
    /\ pc = "texture" /\ staging # shot.width /\ Return("Error")
    /\ Refs({}, {"texture", "frame"} \cup (IF staging # 0 THEN {"staging"} ELSE {}))
    /\ staging' = 0
    /\ UNCHANGED <<first, search, dup, gdi, delivered, prev, screen, out, shot>>

MapFails ==
    /\ pc = "map" /\ Return("Lost")
    /\ Refs({}, {"frame"})
    /\ UNCHANGED <<first, search, fields, screen, out, shot>>

Map ==
    /\ pc = "map" /\ Return("Frame")
    /\ Refs({}, {"frame"})
    /\ out' = Cropped(shot) /\ delivered' = TRUE
    /\ UNCHANGED <<first, search, dup, staging, gdi, prev, screen, shot>>

\* acquire_gdi: the size first, and the picture after three calls that can fail.
GdiMetrics ==
    /\ Step("ready", "dc") /\ gdi
    /\ shot' = desk /\ result' = "none"
    /\ UNCHANGED <<first, refs, search, fields, screen, out>>

GdiMetricsFails ==
    /\ pc = "ready" /\ gdi /\ Return("Error")
    /\ UNCHANGED <<first, refs, search, fields, screen, out, shot>>

GdiMake(from, to, handle) ==
    /\ Step(from, to)
    /\ Refs({handle}, {})
    /\ UNCHANGED <<first, search, fields, screen, seen>>

GdiFails(from, made) ==
    /\ pc = from /\ Return("Error")
    /\ Refs({}, made)
    /\ UNCHANGED <<first, search, fields, screen, out, shot>>

GdiHandles == {"screenDc", "memoryDc", "bitmap"}

GdiBlit ==
    /\ pc = "blit"
    /\ Refs({}, GdiHandles)
    /\ shot' = [shot EXCEPT !.pic = desk.pic]
    /\ IF delivered /\ prev = Cropped(shot')
         THEN Return("Idle") /\ UNCHANGED <<out, prev, delivered>>
         ELSE /\ Return("Frame")
              /\ out' = Cropped(shot') /\ prev' = Cropped(shot') /\ delivered' = TRUE
    /\ UNCHANGED <<first, search, dup, staging, gdi, screen>>

\* The server stops, the viewer is gone, or the encoder fails.
Leave ==
    /\ Step("ready", "closing")
    /\ UNCHANGED <<first, refs, search, fields, screen, seen>>

\* The destructor.
Destroy ==
    /\ Step("closing", "over")
    /\ Shutdown /\ Refs({}, Fields) /\ valid' = FALSE /\ news' = "none"
    /\ UNCHANGED <<first, search, desk, seen>>

------------------------------------------------------------------------------
(* The desktop.                                                             *)

Paint(p) ==
    /\ p # desk.pic /\ desk' = [desk EXCEPT !.pic = p]
    /\ news' = IF valid THEN "present" ELSE news
    /\ UNCHANGED <<pc, first, refs, search, fields, valid, seen>>

Resize(w) ==
    /\ w # desk.width /\ desk' = [desk EXCEPT !.width = w]
    /\ valid' \in {valid, FALSE}
    /\ news' = IF valid' THEN "present" ELSE news
    /\ UNCHANGED <<pc, first, refs, search, fields, seen>>

------------------------------------------------------------------------------
Initialize ==
    \/ \E l \in Layouts : CreateFactory(l)
    \/ CreateFactoryFails \/ NextAdapter \/ NextOutput \/ OutputsDone \/ AdaptersDone
    \/ CreateDevice \/ CreateDeviceFails \/ Duplicate \/ DuplicateFails
    \/ UseGdi \/ UseGdiFails

AcquireDxgi ==
    \/ NothingToAcquire \/ AcquireTimesOut \/ AcquireFails \/ PointerMoved \/ Acquired
    \/ QueryTexture \/ QueryTextureFails \/ Stage \/ StageFails \/ Map \/ MapFails

AcquireGdi ==
    \/ GdiMetrics \/ GdiMetricsFails
    \/ GdiMake("dc", "memory", "screenDc") \/ GdiFails("dc", {})
    \/ GdiMake("memory", "bitmap", "memoryDc") \/ GdiFails("memory", {"screenDc"})
    \/ GdiMake("bitmap", "blit", "bitmap") \/ GdiFails("bitmap", {"screenDc", "memoryDc"})
    \/ GdiBlit \/ GdiFails("blit", GdiHandles)

Next ==
    \/ Begin \/ Initialize \/ AcquireDxgi \/ AcquireGdi \/ Leave \/ Destroy
    \/ \E p \in Pics : Paint(p)
    \/ \E w \in Widths : Resize(w)

Spec == Init /\ [][Next]_vars

------------------------------------------------------------------------------
\* Nothing leaks, whichever call fails in whichever initialize or acquire of a
\* stream: between the calls exactly what the fields name is held, no frame is
\* kept from the system, and after the destructor nothing is.
NothingLeaks ==
    pc \in {"ready", "closing", "over"} =>
        refs = [o \in Object |-> IF o \in Fields THEN 1 ELSE 0]

\* An idle answer can be believed: the picture last handed out is the desktop as
\* the call found it, though frames may have been taken and then lost, the
\* duplication made anew, or GDI taken its place.
IdleMeansDelivered == result = "Idle" => out = Cropped(shot)

\* The search ends with the first primary output, or the first that is attached
\* when there is no primary one ("preferring the primary", capture.cpp:78-81).
Attached == {o \in (1 .. Len(layout)) \X (1 .. Outputs) :
                o[2] <= Len(layout[o[1]]) /\ layout[o[1]][o[2]] # "detached"}

FirstOf(S) == CHOOSE o \in S : \A p \in S :
                  o[1] < p[1] \/ (o[1] = p[1] /\ o[2] <= p[2])

BestOutput ==
    pc \in {"device", "duplicate"} =>
        LET primaries == {o \in Attached : IsPrimary(o)}
        IN best = FirstOf(IF primaries # {} THEN primaries ELSE Attached)

=============================================================================

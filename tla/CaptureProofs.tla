---------------------------- MODULE CaptureProofs ---------------------------
(***************************************************************************)
(* Proofs about Capture, for every set of widths and pictures and every    *)
(* number of adapters and outputs.                                         *)
(*                                                                         *)
(* NothingLeaks speaks of the moments between the calls; HeldInv says what *)
(* is held inside them, at every point a failure can leave from.           *)
(* IdleMeansDelivered rests on DeliveredInv: whenever DXGI has nothing to  *)
(* tell, what was handed out is what the desktop shows.                    *)
(***************************************************************************)
EXTENDS Capture, SequenceTheorems, TLAPS

Searching == {"adapters", "outputs", "device", "duplicate"}

\* The references a call holds in its locals at each point, best_output and
\* best_adapter apart.
Locals ==
    CASE pc = "adapters" -> {"factory"}
      [] pc = "outputs" -> {"factory", "adapter"}
      [] pc = "duplicate" -> {"device", "context"}
      [] pc = "resource" -> {"resource", "frame"}
      [] pc = "texture" -> {"texture", "frame"}
      [] pc = "map" -> {"frame"}
      [] pc = "memory" -> {"screenDc"}
      [] pc = "bitmap" -> {"screenDc", "memoryDc"}
      [] pc = "blit" -> GdiHandles
      [] OTHER -> {}

One(b) == IF b THEN 1 ELSE 0

Held(o) == One(o \in Fields) + One(o \in Locals) + One(pc \in Searching /\ o \in HeldBest)

\* Which of the fields are set at each point, and whether an output is chosen.
PointInv ==
    /\ pc \in Searching \cup {"over", "fallback"} => ~dup /\ staging = 0 /\ ~gdi /\ ~delivered
    /\ pc \in {"resource", "texture", "map"} => dup
    /\ pc \in {"dc", "memory", "bitmap", "blit"} => gdi
    /\ pc \in {"device", "duplicate"} => best # NoOutput
    /\ pc \in {"adapters", "outputs"} => ai \in Nat \ {0}
    /\ gdi => ~dup

\* What the desktop shows, and what the last call saw of it.
ScreenInv ==
    desk \in Desktop /\ shot \in Desktop /\ news \in {"none", "first", "present"}

HeldInv == refs = [o \in Object |-> Held(o)]

\* What is known of the picture handed out.
DeliveredInv ==
    /\ dup /\ valid /\ news = "none" =>
          /\ pc = "ready" => out = Cropped(desk)
          /\ pc \in {"resource", "texture", "map"} => shot = desk
    /\ pc \in {"resource", "texture", "map"} => news # "first"
    /\ dup /\ delivered => news # "first"
    /\ gdi /\ delivered => out = prev
    /\ IdleMeansDelivered

------------------------------------------------------------------------------
\* The fields at each point.
LEMMA PointStep ==
    ASSUME PointInv, [Next]_vars
    PROVE  PointInv'
  <1>. USE DEF PointInv, Searching
  <1>1. CASE Begin
    BY <1>1 DEF Begin, Step, search, fields, screen, seen
  <1>2. ASSUME NEW l \in Layouts, CreateFactory(l) PROVE PointInv'
    BY <1>2 DEF CreateFactory, Step, Shutdown, Refs, search, fields, screen, seen
  <1>3. CASE CreateFactoryFails
    BY <1>3 DEF CreateFactoryFails, Step, Shutdown, Refs, search, fields, screen, seen
  <1>4. CASE NextAdapter
    BY <1>4 DEF NextAdapter, Step, Refs, search, fields, screen, seen
  <1>5. CASE NextOutput
    BY <1>5 DEF NextOutput, Step, Refs, BestPair, HeldBest, Better, search, fields, screen, seen
  <1>6. CASE OutputsDone
    BY <1>6 DEF OutputsDone, Step, Refs, search, fields, screen, seen
  <1>7. CASE AdaptersDone
    BY <1>7 DEF AdaptersDone, Step, Refs, search, fields, screen, seen
  <1>8. CASE CreateDevice
    BY <1>8 DEF CreateDevice, Step, Refs, search, fields, screen, seen
  <1>9. CASE CreateDeviceFails
    BY <1>9 DEF CreateDeviceFails, Step, Refs, Forget, HeldBest, BestPair, search, fields,
         screen, seen
  <1>10. CASE Duplicate
    BY <1>10 DEF Duplicate, Step, Refs, Forget, HeldBest, BestPair, search, fields, screen, seen
  <1>11. CASE DuplicateFails
    BY <1>11 DEF DuplicateFails, Step, Refs, Forget, HeldBest, BestPair, search, fields, screen,
         seen
  <1>12. CASE UseGdi
    BY <1>12 DEF UseGdi, Step, Forget, search, fields, screen, seen
  <1>13. CASE UseGdiFails
    BY <1>13 DEF UseGdiFails, Step, Forget, search, fields, screen, seen
  <1>14. CASE NothingToAcquire
    BY <1>14 DEF NothingToAcquire, Step, Return, search, fields, screen, seen
  <1>15. CASE AcquireTimesOut
    BY <1>15 DEF AcquireTimesOut, Step, Return, search, fields, screen, seen
  <1>16. CASE AcquireFails
    BY <1>16 DEF AcquireFails, Step, Return, search, fields, screen, seen
  <1>17. CASE PointerMoved
    BY <1>17 DEF PointerMoved, Step, Return, search, fields, screen, seen
  <1>18. CASE Acquired
    BY <1>18 DEF Acquired, Step, Refs, search, fields, screen, seen
  <1>19. CASE QueryTexture
    BY <1>19 DEF QueryTexture, Step, Refs, search, fields, screen, seen
  <1>20. CASE QueryTextureFails
    BY <1>20 DEF QueryTextureFails, Step, Return, Refs, search, fields, screen, seen
  <1>21. CASE Stage
    BY <1>21 DEF Stage, Step, Refs, search, fields, screen, seen
  <1>22. CASE StageFails
    BY <1>22 DEF StageFails, Step, Return, Refs, search, fields, screen, seen
  <1>23. CASE MapFails
    BY <1>23 DEF MapFails, Step, Return, Refs, search, fields, screen, seen
  <1>24. CASE Map
    BY <1>24 DEF Map, Step, Return, Refs, search, fields, screen, seen
  <1>25. CASE GdiMetrics
    BY <1>25 DEF GdiMetrics, Step, search, fields, screen, seen
  <1>26. CASE GdiMetricsFails
    BY <1>26 DEF GdiMetricsFails, Step, Return, search, fields, screen, seen
  <1>27. CASE GdiMake("dc", "memory", "screenDc")
    BY <1>27 DEF GdiMake, Step, Refs, search, fields, screen, seen
  <1>28. CASE GdiMake("memory", "bitmap", "memoryDc")
    BY <1>28 DEF GdiMake, Step, Refs, search, fields, screen, seen
  <1>29. CASE GdiMake("bitmap", "blit", "bitmap")
    BY <1>29 DEF GdiMake, Step, Refs, search, fields, screen, seen
  <1>30. CASE GdiFails("dc", {})
    BY <1>30 DEF GdiFails, Step, Return, Refs, GdiHandles, search, fields, screen, seen
  <1>31. CASE GdiFails("memory", {"screenDc"})
    BY <1>31 DEF GdiFails, Step, Return, Refs, GdiHandles, search, fields, screen, seen
  <1>32. CASE GdiFails("bitmap", {"screenDc", "memoryDc"})
    BY <1>32 DEF GdiFails, Step, Return, Refs, GdiHandles, search, fields, screen, seen
  <1>33. CASE GdiFails("blit", GdiHandles)
    BY <1>33 DEF GdiFails, Step, Return, Refs, GdiHandles, search, fields, screen, seen
  <1>34. CASE GdiBlit
    BY <1>34 DEF GdiBlit, Step, Return, Refs, GdiHandles, Cropped, search, fields, screen, seen
  <1>35. CASE Leave
    BY <1>35 DEF Leave, Step, search, fields, screen, seen
  <1>36. CASE Destroy
    BY <1>36 DEF Destroy, Step, Shutdown, Refs, search, fields, screen, seen
  <1>37. ASSUME NEW p \in Pics, Paint(p) PROVE PointInv'
    BY <1>37 DEF Paint, Step, search, fields, screen, seen
  <1>38. ASSUME NEW w \in Widths, Resize(w) PROVE PointInv'
    BY <1>38 DEF Resize, Step, search, fields, screen, seen
  <1>39. CASE UNCHANGED vars
    BY <1>39 DEF vars, search, fields, screen, seen
  <1>. QED
    BY <1>1, <1>2, <1>3, <1>4, <1>5, <1>6, <1>7, <1>8, <1>9, <1>10, <1>11, <1>12, <1>13, <1>14,
       <1>15, <1>16, <1>17, <1>18, <1>19, <1>20, <1>21, <1>22, <1>23, <1>24, <1>25, <1>26,
       <1>27, <1>28, <1>29, <1>30, <1>31, <1>32, <1>33, <1>34, <1>35, <1>36, <1>37, <1>38, <1>39 DEF Next, Initialize, AcquireDxgi, AcquireGdi

\* What the desktop shows.
LEMMA ScreenStep ==
    ASSUME ScreenInv, [Next]_vars
    PROVE  ScreenInv'
  <1>. USE DEF ScreenInv, Desktop
  <1>1. CASE Begin
    BY <1>1 DEF Begin, Step, search, fields, screen, seen
  <1>2. ASSUME NEW l \in Layouts, CreateFactory(l) PROVE ScreenInv'
    BY <1>2 DEF CreateFactory, Step, Shutdown, Refs, search, fields, screen, seen
  <1>3. CASE CreateFactoryFails
    BY <1>3 DEF CreateFactoryFails, Step, Shutdown, Refs, search, fields, screen, seen
  <1>4. CASE NextAdapter
    BY <1>4 DEF NextAdapter, Step, Refs, search, fields, screen, seen
  <1>5. CASE NextOutput
    BY <1>5 DEF NextOutput, Step, Refs, BestPair, HeldBest, Better, search, fields, screen, seen
  <1>6. CASE OutputsDone
    BY <1>6 DEF OutputsDone, Step, Refs, search, fields, screen, seen
  <1>7. CASE AdaptersDone
    BY <1>7 DEF AdaptersDone, Step, Refs, search, fields, screen, seen
  <1>8. CASE CreateDevice
    BY <1>8 DEF CreateDevice, Step, Refs, search, fields, screen, seen
  <1>9. CASE CreateDeviceFails
    BY <1>9 DEF CreateDeviceFails, Step, Refs, Forget, HeldBest, BestPair, search, fields,
         screen, seen
  <1>10. CASE Duplicate
    BY <1>10 DEF Duplicate, Step, Refs, Forget, HeldBest, BestPair, search, fields, screen, seen
  <1>11. CASE DuplicateFails
    BY <1>11 DEF DuplicateFails, Step, Refs, Forget, HeldBest, BestPair, search, fields, screen,
         seen
  <1>12. CASE UseGdi
    BY <1>12 DEF UseGdi, Step, Forget, search, fields, screen, seen
  <1>13. CASE UseGdiFails
    BY <1>13 DEF UseGdiFails, Step, Forget, search, fields, screen, seen
  <1>14. CASE NothingToAcquire
    BY <1>14 DEF NothingToAcquire, Step, Return, search, fields, screen, seen
  <1>15. CASE AcquireTimesOut
    BY <1>15 DEF AcquireTimesOut, Step, Return, search, fields, screen, seen
  <1>16. CASE AcquireFails
    BY <1>16 DEF AcquireFails, Step, Return, search, fields, screen, seen
  <1>17. CASE PointerMoved
    BY <1>17 DEF PointerMoved, Step, Return, search, fields, screen, seen
  <1>18. CASE Acquired
    BY <1>18 DEF Acquired, Step, Refs, search, fields, screen, seen
  <1>19. CASE QueryTexture
    BY <1>19 DEF QueryTexture, Step, Refs, search, fields, screen, seen
  <1>20. CASE QueryTextureFails
    BY <1>20 DEF QueryTextureFails, Step, Return, Refs, search, fields, screen, seen
  <1>21. CASE Stage
    BY <1>21 DEF Stage, Step, Refs, search, fields, screen, seen
  <1>22. CASE StageFails
    BY <1>22 DEF StageFails, Step, Return, Refs, search, fields, screen, seen
  <1>23. CASE MapFails
    BY <1>23 DEF MapFails, Step, Return, Refs, search, fields, screen, seen
  <1>24. CASE Map
    BY <1>24 DEF Map, Step, Return, Refs, search, fields, screen, seen
  <1>25. CASE GdiMetrics
    BY <1>25 DEF GdiMetrics, Step, search, fields, screen, seen
  <1>26. CASE GdiMetricsFails
    BY <1>26 DEF GdiMetricsFails, Step, Return, search, fields, screen, seen
  <1>27. CASE GdiMake("dc", "memory", "screenDc")
    BY <1>27 DEF GdiMake, Step, Refs, search, fields, screen, seen
  <1>28. CASE GdiMake("memory", "bitmap", "memoryDc")
    BY <1>28 DEF GdiMake, Step, Refs, search, fields, screen, seen
  <1>29. CASE GdiMake("bitmap", "blit", "bitmap")
    BY <1>29 DEF GdiMake, Step, Refs, search, fields, screen, seen
  <1>30. CASE GdiFails("dc", {})
    BY <1>30 DEF GdiFails, Step, Return, Refs, GdiHandles, search, fields, screen, seen
  <1>31. CASE GdiFails("memory", {"screenDc"})
    BY <1>31 DEF GdiFails, Step, Return, Refs, GdiHandles, search, fields, screen, seen
  <1>32. CASE GdiFails("bitmap", {"screenDc", "memoryDc"})
    BY <1>32 DEF GdiFails, Step, Return, Refs, GdiHandles, search, fields, screen, seen
  <1>33. CASE GdiFails("blit", GdiHandles)
    BY <1>33 DEF GdiFails, Step, Return, Refs, GdiHandles, search, fields, screen, seen
  <1>34. CASE GdiBlit
    BY <1>34 DEF GdiBlit, Step, Return, Refs, GdiHandles, Cropped, search, fields, screen, seen
  <1>35. CASE Leave
    BY <1>35 DEF Leave, Step, search, fields, screen, seen
  <1>36. CASE Destroy
    BY <1>36 DEF Destroy, Step, Shutdown, Refs, search, fields, screen, seen
  <1>37. ASSUME NEW p \in Pics, Paint(p) PROVE ScreenInv'
    BY <1>37 DEF Paint, Step, search, fields, screen, seen
  <1>38. ASSUME NEW w \in Widths, Resize(w) PROVE ScreenInv'
    BY <1>38 DEF Resize, Step, search, fields, screen, seen
  <1>39. CASE UNCHANGED vars
    BY <1>39 DEF vars, search, fields, screen, seen
  <1>. QED
    BY <1>1, <1>2, <1>3, <1>4, <1>5, <1>6, <1>7, <1>8, <1>9, <1>10, <1>11, <1>12, <1>13, <1>14,
       <1>15, <1>16, <1>17, <1>18, <1>19, <1>20, <1>21, <1>22, <1>23, <1>24, <1>25, <1>26,
       <1>27, <1>28, <1>29, <1>30, <1>31, <1>32, <1>33, <1>34, <1>35, <1>36, <1>37, <1>38, <1>39 DEF Next, Initialize, AcquireDxgi, AcquireGdi

\* What is held at each point.
LEMMA HeldStep ==
    ASSUME PointInv, ScreenInv, HeldInv, [Next]_vars
    PROVE  HeldInv'
  <1>. USE DEF PointInv, HeldInv, Held, One, Locals, Searching, HeldBest, BestPair, Fields,
            Object, GdiHandles
  <1>1. CASE Begin
    BY <1>1 DEF Begin, Step, search, fields, screen, seen
  <1>2. ASSUME NEW l \in Layouts, CreateFactory(l) PROVE HeldInv'
    BY <1>2 DEF CreateFactory, Step, Shutdown, Refs, search, fields, screen, seen
  <1>3. CASE CreateFactoryFails
    BY <1>3 DEF CreateFactoryFails, Step, Shutdown, Refs, search, fields, screen, seen
  <1>4. CASE NextAdapter
    BY <1>4 DEF NextAdapter, Step, Refs, search, fields, screen, seen
  <1>5. CASE NextOutput
    <2>. USE <1>5 DEF NextOutput, Step, Refs, search, fields, screen, seen
    <2>1. CASE Better(<<ai, oi>>)
      <3>1. <<ai, oi>> # NoOutput
        BY DEF NoOutput
      <3>2. best' = <<ai, oi>> /\ Fields' = Fields /\ Locals' = Locals
        BY <2>1
      <3>3. HeldBest' = BestPair
        BY <3>1, <3>2
      <3>4. refs' = [o \in Object |-> refs[o] + One(o \in BestPair) - One(o \in HeldBest)]
        BY <2>1
      <3>. QED
        BY <3>2, <3>3, <3>4
    <2>2. CASE ~Better(<<ai, oi>>)
      BY <2>2
    <2>. QED
      BY <2>1, <2>2
  <1>6. CASE OutputsDone
    BY <1>6 DEF OutputsDone, Step, Refs, search, fields, screen, seen
  <1>7. CASE AdaptersDone
    BY <1>7 DEF AdaptersDone, Step, Refs, search, fields, screen, seen
  <1>8. CASE CreateDevice
    BY <1>8 DEF CreateDevice, Step, Refs, search, fields, screen, seen
  <1>9. CASE CreateDeviceFails
    BY <1>9 DEF CreateDeviceFails, Step, Refs, Forget, search, fields, screen, seen
  <1>10. CASE Duplicate
    BY <1>10 DEF Duplicate, Step, Refs, Forget, search, fields, screen, seen
  <1>11. CASE DuplicateFails
    BY <1>11 DEF DuplicateFails, Step, Refs, Forget, search, fields, screen, seen
  <1>12. CASE UseGdi
    BY <1>12 DEF UseGdi, Step, Forget, search, fields, screen, seen
  <1>13. CASE UseGdiFails
    BY <1>13 DEF UseGdiFails, Step, Forget, search, fields, screen, seen
  <1>14. CASE NothingToAcquire
    BY <1>14 DEF NothingToAcquire, Step, Return, search, fields, screen, seen
  <1>15. CASE AcquireTimesOut
    BY <1>15 DEF AcquireTimesOut, Step, Return, search, fields, screen, seen
  <1>16. CASE AcquireFails
    BY <1>16 DEF AcquireFails, Step, Return, search, fields, screen, seen
  <1>17. CASE PointerMoved
    BY <1>17 DEF PointerMoved, Step, Return, search, fields, screen, seen
  <1>18. CASE Acquired
    BY <1>18 DEF Acquired, Step, Refs, search, fields, screen, seen
  <1>19. CASE QueryTexture
    BY <1>19 DEF QueryTexture, Step, Refs, search, fields, screen, seen
  <1>20. CASE QueryTextureFails
    BY <1>20 DEF QueryTextureFails, Step, Return, Refs, search, fields, screen, seen
  <1>21. CASE Stage
    <2>1. staging' = shot.width /\ shot.width # 0
      BY <1>21, SizesAssumption DEF Stage, ScreenInv, Desktop, fields
    <2>. QED
      BY <1>21, <2>1 DEF Stage, Step, Refs, search, fields, screen, seen
  <1>22. CASE StageFails
    BY <1>22 DEF StageFails, Step, Return, Refs, search, fields, screen, seen
  <1>23. CASE MapFails
    BY <1>23 DEF MapFails, Step, Return, Refs, search, fields, screen, seen
  <1>24. CASE Map
    BY <1>24 DEF Map, Step, Return, Refs, search, fields, screen, seen
  <1>25. CASE GdiMetrics
    BY <1>25 DEF GdiMetrics, Step, search, fields, screen, seen
  <1>26. CASE GdiMetricsFails
    BY <1>26 DEF GdiMetricsFails, Step, Return, search, fields, screen, seen
  <1>27. CASE GdiMake("dc", "memory", "screenDc")
    BY <1>27 DEF GdiMake, Step, Refs, search, fields, screen, seen
  <1>28. CASE GdiMake("memory", "bitmap", "memoryDc")
    BY <1>28 DEF GdiMake, Step, Refs, search, fields, screen, seen
  <1>29. CASE GdiMake("bitmap", "blit", "bitmap")
    BY <1>29 DEF GdiMake, Step, Refs, search, fields, screen, seen
  <1>30. CASE GdiFails("dc", {})
    BY <1>30 DEF GdiFails, Step, Return, Refs, search, fields, screen, seen
  <1>31. CASE GdiFails("memory", {"screenDc"})
    BY <1>31 DEF GdiFails, Step, Return, Refs, search, fields, screen, seen
  <1>32. CASE GdiFails("bitmap", {"screenDc", "memoryDc"})
    BY <1>32 DEF GdiFails, Step, Return, Refs, search, fields, screen, seen
  <1>33. CASE GdiFails("blit", GdiHandles)
    BY <1>33 DEF GdiFails, Step, Return, Refs, search, fields, screen, seen
  <1>34. CASE GdiBlit
    BY <1>34 DEF GdiBlit, Step, Return, Refs, Cropped, search, fields, screen, seen
  <1>35. CASE Leave
    BY <1>35 DEF Leave, Step, search, fields, screen, seen
  <1>36. CASE Destroy
    BY <1>36 DEF Destroy, Step, Shutdown, Refs, search, fields, screen, seen
  <1>37. ASSUME NEW p \in Pics, Paint(p) PROVE HeldInv'
    BY <1>37 DEF Paint, Step, search, fields, screen, seen
  <1>38. ASSUME NEW w \in Widths, Resize(w) PROVE HeldInv'
    BY <1>38 DEF Resize, Step, search, fields, screen, seen
  <1>39. CASE UNCHANGED vars
    BY <1>39 DEF vars, search, fields, screen, seen
  <1>. QED
    BY <1>1, <1>2, <1>3, <1>4, <1>5, <1>6, <1>7, <1>8, <1>9, <1>10, <1>11, <1>12, <1>13, <1>14,
       <1>15, <1>16, <1>17, <1>18, <1>19, <1>20, <1>21, <1>22, <1>23, <1>24, <1>25, <1>26,
       <1>27, <1>28, <1>29, <1>30, <1>31, <1>32, <1>33, <1>34, <1>35, <1>36, <1>37, <1>38, <1>39 DEF Next, Initialize, AcquireDxgi, AcquireGdi

\* What is known of the picture handed out.
LEMMA DeliveredStep ==
    ASSUME PointInv, ScreenInv, DeliveredInv, [Next]_vars
    PROVE  DeliveredInv'
  <1>. USE DEF PointInv, ScreenInv, DeliveredInv, IdleMeansDelivered, Searching, Cropped
  <1>1. CASE Begin
    BY <1>1 DEF Begin, Step, search, fields, screen, seen
  <1>2. ASSUME NEW l \in Layouts, CreateFactory(l) PROVE DeliveredInv'
    BY <1>2 DEF CreateFactory, Step, Shutdown, Refs, search, fields, screen, seen
  <1>3. CASE CreateFactoryFails
    BY <1>3 DEF CreateFactoryFails, Step, Shutdown, Refs, search, fields, screen, seen
  <1>4. CASE NextAdapter
    BY <1>4 DEF NextAdapter, Step, Refs, search, fields, screen, seen
  <1>5. CASE NextOutput
    BY <1>5 DEF NextOutput, Step, Refs, BestPair, HeldBest, Better, search, fields, screen, seen
  <1>6. CASE OutputsDone
    BY <1>6 DEF OutputsDone, Step, Refs, search, fields, screen, seen
  <1>7. CASE AdaptersDone
    BY <1>7 DEF AdaptersDone, Step, Refs, search, fields, screen, seen
  <1>8. CASE CreateDevice
    BY <1>8 DEF CreateDevice, Step, Refs, search, fields, screen, seen
  <1>9. CASE CreateDeviceFails
    BY <1>9 DEF CreateDeviceFails, Step, Refs, Forget, HeldBest, BestPair, search, fields,
         screen, seen
  <1>10. CASE Duplicate
    BY <1>10 DEF Duplicate, Step, Refs, Forget, HeldBest, BestPair, search, fields, screen, seen
  <1>11. CASE DuplicateFails
    BY <1>11 DEF DuplicateFails, Step, Refs, Forget, HeldBest, BestPair, search, fields, screen,
         seen
  <1>12. CASE UseGdi
    BY <1>12 DEF UseGdi, Step, Forget, search, fields, screen, seen
  <1>13. CASE UseGdiFails
    BY <1>13 DEF UseGdiFails, Step, Forget, search, fields, screen, seen
  <1>14. CASE NothingToAcquire
    BY <1>14 DEF NothingToAcquire, Step, Return, search, fields, screen, seen
  <1>15. CASE AcquireTimesOut
    BY <1>15 DEF AcquireTimesOut, Step, Return, search, fields, screen, seen
  <1>16. CASE AcquireFails
    BY <1>16 DEF AcquireFails, Step, Return, search, fields, screen, seen
  <1>17. CASE PointerMoved
    BY <1>17 DEF PointerMoved, Step, Return, search, fields, screen, seen
  <1>18. CASE Acquired
    BY <1>18 DEF Acquired, Step, Refs, search, fields, screen, seen
  <1>19. CASE QueryTexture
    BY <1>19 DEF QueryTexture, Step, Refs, search, fields, screen, seen
  <1>20. CASE QueryTextureFails
    BY <1>20 DEF QueryTextureFails, Step, Return, Refs, search, fields, screen, seen
  <1>21. CASE Stage
    BY <1>21 DEF Stage, Step, Refs, search, fields, screen, seen
  <1>22. CASE StageFails
    BY <1>22 DEF StageFails, Step, Return, Refs, search, fields, screen, seen
  <1>23. CASE MapFails
    BY <1>23 DEF MapFails, Step, Return, Refs, search, fields, screen, seen
  <1>24. CASE Map
    BY <1>24 DEF Map, Step, Return, Refs, search, fields, screen, seen
  <1>25. CASE GdiMetrics
    BY <1>25 DEF GdiMetrics, Step, search, fields, screen, seen
  <1>26. CASE GdiMetricsFails
    BY <1>26 DEF GdiMetricsFails, Step, Return, search, fields, screen, seen
  <1>27. CASE GdiMake("dc", "memory", "screenDc")
    BY <1>27 DEF GdiMake, Step, Refs, search, fields, screen, seen
  <1>28. CASE GdiMake("memory", "bitmap", "memoryDc")
    BY <1>28 DEF GdiMake, Step, Refs, search, fields, screen, seen
  <1>29. CASE GdiMake("bitmap", "blit", "bitmap")
    BY <1>29 DEF GdiMake, Step, Refs, search, fields, screen, seen
  <1>30. CASE GdiFails("dc", {})
    BY <1>30 DEF GdiFails, Step, Return, Refs, GdiHandles, search, fields, screen, seen
  <1>31. CASE GdiFails("memory", {"screenDc"})
    BY <1>31 DEF GdiFails, Step, Return, Refs, GdiHandles, search, fields, screen, seen
  <1>32. CASE GdiFails("bitmap", {"screenDc", "memoryDc"})
    BY <1>32 DEF GdiFails, Step, Return, Refs, GdiHandles, search, fields, screen, seen
  <1>33. CASE GdiFails("blit", GdiHandles)
    BY <1>33 DEF GdiFails, Step, Return, Refs, GdiHandles, search, fields, screen, seen
  <1>34. CASE GdiBlit
    BY <1>34 DEF GdiBlit, Step, Return, Refs, GdiHandles, search, fields, screen, seen
  <1>35. CASE Leave
    BY <1>35 DEF Leave, Step, search, fields, screen, seen
  <1>36. CASE Destroy
    BY <1>36 DEF Destroy, Step, Shutdown, Refs, search, fields, screen, seen
  <1>37. ASSUME NEW p \in Pics, Paint(p) PROVE DeliveredInv'
    BY <1>37 DEF Paint, Step, search, fields, screen, seen
  <1>38. ASSUME NEW w \in Widths, Resize(w) PROVE DeliveredInv'
    BY <1>38 DEF Resize, Step, search, fields, screen, seen
  <1>39. CASE UNCHANGED vars
    BY <1>39 DEF vars, search, fields, screen, seen
  <1>. QED
    BY <1>1, <1>2, <1>3, <1>4, <1>5, <1>6, <1>7, <1>8, <1>9, <1>10, <1>11, <1>12, <1>13, <1>14,
       <1>15, <1>16, <1>17, <1>18, <1>19, <1>20, <1>21, <1>22, <1>23, <1>24, <1>25, <1>26,
       <1>27, <1>28, <1>29, <1>30, <1>31, <1>32, <1>33, <1>34, <1>35, <1>36, <1>37, <1>38, <1>39 DEF Next, Initialize, AcquireDxgi, AcquireGdi

LEMMA LayoutLength ==
    ASSUME NEW l \in Layouts
    PROVE  /\ Len(l) \in 0 .. Adapters
           /\ \A i \in 1 .. Len(l) : Len(l[i]) \in 0 .. Outputs
  <1>1. ASSUME NEW S, NEW n \in Nat, NEW s \in SeqOf(S, n)
        PROVE  Len(s) \in 0 .. n /\ \A i \in 1 .. Len(s) : s[i] \in S
    <2>1. PICK m \in 0 .. n : s \in [1 .. m -> S]
      BY <1>1 DEF SeqOf
    <2>2. s \in Seq(S) /\ Len(s) = m
      BY <2>1, SeqDef
    <2>. QED
      BY <2>1, <2>2
  <1>2. Len(l) \in 0 .. Adapters /\ \A i \in 1 .. Len(l) : l[i] \in SeqOf(Kind, Outputs)
    BY <1>1, CountsAssumption DEF Layouts
  <1>. QED
    BY <1>1, <1>2, CountsAssumption

\* The counts of references, from what is held.
LEMMA HeldTyped ==
    ASSUME PointInv, HeldInv PROVE refs \in [Object -> 0 .. 2]
  <1>1. ASSUME NEW o \in Object PROVE Held(o) \in 0 .. 2
    BY DEF PointInv, Held, One, Locals, Searching, HeldBest, BestPair, Fields, Object, GdiHandles
  <1>. QED
    BY <1>1 DEF HeldInv

\* The search's counters stay within what the factory enumerates.
SearchTyped ==
    /\ layout \in Layouts /\ ai \in 0 .. Adapters + 1 /\ oi \in 0 .. Outputs + 1
    /\ best \in (1 .. Adapters) \X (1 .. Outputs) \cup {NoOutput}
    /\ pc = "outputs" => ai \in 1 .. Len(layout)
    /\ pc \in {"adapters", "outputs"} => ai >= 1
    /\ pc = "outputs" => oi >= 1

LEMMA NoLayout ==
    <<>> \in Layouts /\ 0 \in 0 .. Adapters + 1 /\ 0 \in 0 .. Outputs + 1
  <1>1. <<>> \in [1 .. 0 -> SeqOf(Kind, Outputs)] /\ 0 \in 0 .. Adapters
    BY CountsAssumption
  <1>. QED
    BY <1>1, CountsAssumption DEF Layouts, SeqOf

LEMMA ForgetTyped ==
    ASSUME Forget
    PROVE  /\ layout' \in Layouts /\ ai' \in 0 .. Adapters + 1 /\ oi' \in 0 .. Outputs + 1
           /\ best' = NoOutput
  BY NoLayout DEF Forget

\* The types of the search.
LEMMA SearchTypedStep ==
    ASSUME SearchTyped, [Next]_vars
    PROVE  SearchTyped'
  <1>. USE DEF SearchTyped, NoOutput
  <1>1. CASE Begin
    BY <1>1 DEF Begin, Step, search, fields, screen, seen
  <1>2. ASSUME NEW l \in Layouts, CreateFactory(l) PROVE SearchTyped'
    BY <1>2, LayoutLength, CountsAssumption DEF CreateFactory, Step, Shutdown, Refs, search,
         fields, screen, seen
  <1>3. CASE CreateFactoryFails
    BY <1>3 DEF CreateFactoryFails, Step, Shutdown, Refs, search, fields, screen, seen
  <1>4. CASE NextAdapter
    BY <1>4, LayoutLength, CountsAssumption DEF NextAdapter, Step, Refs, search, fields, screen,
         seen
  <1>5. CASE NextOutput
    BY <1>5, LayoutLength, CountsAssumption DEF NextOutput, Step, Refs, BestPair, HeldBest,
         Better, search, fields, screen, seen
  <1>6. CASE OutputsDone
    BY <1>6, LayoutLength, CountsAssumption DEF OutputsDone, Step, Refs, search, fields, screen,
         seen
  <1>7. CASE AdaptersDone
    BY <1>7, LayoutLength, CountsAssumption DEF AdaptersDone, Step, Refs, search, fields,
         screen, seen
  <1>8. CASE CreateDevice
    BY <1>8 DEF CreateDevice, Step, Refs, search, fields, screen, seen
  <1>9. CASE CreateDeviceFails
    BY <1>9, ForgetTyped DEF Duplicate, CreateDeviceFails, DuplicateFails, UseGdi, UseGdiFails, Step
  <1>10. CASE Duplicate
    BY <1>10, ForgetTyped DEF Duplicate, CreateDeviceFails, DuplicateFails, UseGdi, UseGdiFails, Step
  <1>11. CASE DuplicateFails
    BY <1>11, ForgetTyped DEF Duplicate, CreateDeviceFails, DuplicateFails, UseGdi, UseGdiFails, Step
  <1>12. CASE UseGdi
    BY <1>12, ForgetTyped DEF Duplicate, CreateDeviceFails, DuplicateFails, UseGdi, UseGdiFails, Step
  <1>13. CASE UseGdiFails
    BY <1>13, ForgetTyped DEF Duplicate, CreateDeviceFails, DuplicateFails, UseGdi, UseGdiFails, Step
  <1>14. CASE NothingToAcquire
    BY <1>14 DEF NothingToAcquire, Step, Return, search, fields, screen, seen
  <1>15. CASE AcquireTimesOut
    BY <1>15 DEF AcquireTimesOut, Step, Return, search, fields, screen, seen
  <1>16. CASE AcquireFails
    BY <1>16 DEF AcquireFails, Step, Return, search, fields, screen, seen
  <1>17. CASE PointerMoved
    BY <1>17 DEF PointerMoved, Step, Return, search, fields, screen, seen
  <1>18. CASE Acquired
    BY <1>18 DEF Acquired, Step, Refs, search, fields, screen, seen
  <1>19. CASE QueryTexture
    BY <1>19 DEF QueryTexture, Step, Refs, search, fields, screen, seen
  <1>20. CASE QueryTextureFails
    BY <1>20 DEF QueryTextureFails, Step, Return, Refs, search, fields, screen, seen
  <1>21. CASE Stage
    BY <1>21 DEF Stage, Step, Refs, search, fields, screen, seen
  <1>22. CASE StageFails
    BY <1>22 DEF StageFails, Step, Return, Refs, search, fields, screen, seen
  <1>23. CASE MapFails
    BY <1>23 DEF MapFails, Step, Return, Refs, search, fields, screen, seen
  <1>24. CASE Map
    BY <1>24 DEF Map, Step, Return, Refs, search, fields, screen, seen
  <1>25. CASE GdiMetrics
    BY <1>25 DEF GdiMetrics, Step, search, fields, screen, seen
  <1>26. CASE GdiMetricsFails
    BY <1>26 DEF GdiMetricsFails, Step, Return, search, fields, screen, seen
  <1>27. CASE GdiMake("dc", "memory", "screenDc")
    BY <1>27 DEF GdiMake, Step, Refs, search, fields, screen, seen
  <1>28. CASE GdiMake("memory", "bitmap", "memoryDc")
    BY <1>28 DEF GdiMake, Step, Refs, search, fields, screen, seen
  <1>29. CASE GdiMake("bitmap", "blit", "bitmap")
    BY <1>29 DEF GdiMake, Step, Refs, search, fields, screen, seen
  <1>30. CASE GdiFails("dc", {})
    BY <1>30 DEF GdiFails, Step, Return, Refs, GdiHandles, search, fields, screen, seen
  <1>31. CASE GdiFails("memory", {"screenDc"})
    BY <1>31 DEF GdiFails, Step, Return, Refs, GdiHandles, search, fields, screen, seen
  <1>32. CASE GdiFails("bitmap", {"screenDc", "memoryDc"})
    BY <1>32 DEF GdiFails, Step, Return, Refs, GdiHandles, search, fields, screen, seen
  <1>33. CASE GdiFails("blit", GdiHandles)
    BY <1>33 DEF GdiFails, Step, Return, Refs, GdiHandles, search, fields, screen, seen
  <1>34. CASE GdiBlit
    BY <1>34 DEF GdiBlit, Step, Return, Refs, GdiHandles, Cropped, search, fields, screen, seen
  <1>35. CASE Leave
    BY <1>35 DEF Leave, Step, search, fields, screen, seen
  <1>36. CASE Destroy
    BY <1>36 DEF Destroy, Step, Shutdown, Refs, search, fields, screen, seen
  <1>37. ASSUME NEW p \in Pics, Paint(p) PROVE SearchTyped'
    BY <1>37 DEF Paint, Step, search, fields, screen, seen
  <1>38. ASSUME NEW w \in Widths, Resize(w) PROVE SearchTyped'
    BY <1>38 DEF Resize, Step, search, fields, screen, seen
  <1>39. CASE UNCHANGED vars
    BY <1>39 DEF vars, search, fields, screen, seen
  <1>. QED
    BY <1>1, <1>2, <1>3, <1>4, <1>5, <1>6, <1>7, <1>8, <1>9, <1>10, <1>11, <1>12, <1>13, <1>14,
       <1>15, <1>16, <1>17, <1>18, <1>19, <1>20, <1>21, <1>22, <1>23, <1>24, <1>25, <1>26,
       <1>27, <1>28, <1>29, <1>30, <1>31, <1>32, <1>33, <1>34, <1>35, <1>36, <1>37, <1>38, <1>39 DEF Next, Initialize, AcquireDxgi, AcquireGdi

\* The types of the other variables.
FieldsTyped ==
    /\ pc \in {"over", "init", "adapters", "outputs", "device", "duplicate", "fallback",
               "ready", "resource", "texture", "map", "dc", "memory", "bitmap", "blit",
               "closing"}
    /\ first \in BOOLEAN /\ dup \in BOOLEAN /\ gdi \in BOOLEAN /\ delivered \in BOOLEAN
    /\ staging \in Widths \cup {0}
    /\ prev \in {Cropped(d) : d \in Desktop} \cup {NoPicture}
    /\ valid \in BOOLEAN
    /\ out \in {Cropped(d) : d \in Desktop} \cup {NoPicture}
    /\ result \in {"none", "Frame", "Idle", "Lost", "Error"}

LEMMA FieldsTypedStep ==
    ASSUME ScreenInv, FieldsTyped, [Next]_vars
    PROVE  FieldsTyped'
  <1>. USE DEF FieldsTyped
  <1>0. shot \in Desktop /\ shot.width \in Widths /\ [shot EXCEPT !.pic = desk.pic] \in Desktop
    BY DEF ScreenInv, Desktop
  <1>1. CASE Begin
    BY <1>1 DEF Begin, Step, search, fields, screen, seen
  <1>2. ASSUME NEW l \in Layouts, CreateFactory(l) PROVE FieldsTyped'
    BY <1>2 DEF CreateFactory, Step, Shutdown, Refs, search, fields, screen, seen
  <1>3. CASE CreateFactoryFails
    BY <1>3 DEF CreateFactoryFails, Step, Shutdown, Refs, search, fields, screen, seen
  <1>4. CASE NextAdapter
    BY <1>4 DEF NextAdapter, Step, Refs, search, fields, screen, seen
  <1>5. CASE NextOutput
    BY <1>5 DEF NextOutput, Step, Refs, BestPair, HeldBest, Better, search, fields, screen, seen
  <1>6. CASE OutputsDone
    BY <1>6 DEF OutputsDone, Step, Refs, search, fields, screen, seen
  <1>7. CASE AdaptersDone
    BY <1>7 DEF AdaptersDone, Step, Refs, search, fields, screen, seen
  <1>8. CASE CreateDevice
    BY <1>8 DEF CreateDevice, Step, Refs, search, fields, screen, seen
  <1>9. CASE CreateDeviceFails
    BY <1>9 DEF CreateDeviceFails, Step, Refs, Forget, HeldBest, BestPair, search, fields,
         screen, seen
  <1>10. CASE Duplicate
    BY <1>10 DEF Duplicate, Step, Refs, Forget, HeldBest, BestPair, search, fields, screen, seen
  <1>11. CASE DuplicateFails
    BY <1>11 DEF DuplicateFails, Step, Refs, Forget, HeldBest, BestPair, search, fields, screen,
         seen
  <1>12. CASE UseGdi
    BY <1>12 DEF UseGdi, Step, Forget, search, fields, screen, seen
  <1>13. CASE UseGdiFails
    BY <1>13 DEF UseGdiFails, Step, Forget, search, fields, screen, seen
  <1>14. CASE NothingToAcquire
    BY <1>14 DEF NothingToAcquire, Step, Return, search, fields, screen, seen
  <1>15. CASE AcquireTimesOut
    BY <1>15 DEF AcquireTimesOut, Step, Return, search, fields, screen, seen
  <1>16. CASE AcquireFails
    BY <1>16 DEF AcquireFails, Step, Return, search, fields, screen, seen
  <1>17. CASE PointerMoved
    BY <1>17 DEF PointerMoved, Step, Return, search, fields, screen, seen
  <1>18. CASE Acquired
    BY <1>18 DEF Acquired, Step, Refs, search, fields, screen, seen
  <1>19. CASE QueryTexture
    BY <1>19 DEF QueryTexture, Step, Refs, search, fields, screen, seen
  <1>20. CASE QueryTextureFails
    BY <1>20 DEF QueryTextureFails, Step, Return, Refs, search, fields, screen, seen
  <1>21. CASE Stage
    BY <1>21, <1>0 DEF Stage, Step, Refs, search, fields, screen, seen
  <1>22. CASE StageFails
    BY <1>22 DEF StageFails, Step, Return, Refs, search, fields, screen, seen
  <1>23. CASE MapFails
    BY <1>23 DEF MapFails, Step, Return, Refs, search, fields, screen, seen
  <1>24. CASE Map
    BY <1>24, <1>0 DEF Map, Step, Return, Refs, search, fields, screen, seen
  <1>25. CASE GdiMetrics
    BY <1>25 DEF GdiMetrics, Step, search, fields, screen, seen
  <1>26. CASE GdiMetricsFails
    BY <1>26 DEF GdiMetricsFails, Step, Return, search, fields, screen, seen
  <1>27. CASE GdiMake("dc", "memory", "screenDc")
    BY <1>27 DEF GdiMake, Step, Refs, search, fields, screen, seen
  <1>28. CASE GdiMake("memory", "bitmap", "memoryDc")
    BY <1>28 DEF GdiMake, Step, Refs, search, fields, screen, seen
  <1>29. CASE GdiMake("bitmap", "blit", "bitmap")
    BY <1>29 DEF GdiMake, Step, Refs, search, fields, screen, seen
  <1>30. CASE GdiFails("dc", {})
    BY <1>30 DEF GdiFails, Step, Return, Refs, GdiHandles, search, fields, screen, seen
  <1>31. CASE GdiFails("memory", {"screenDc"})
    BY <1>31 DEF GdiFails, Step, Return, Refs, GdiHandles, search, fields, screen, seen
  <1>32. CASE GdiFails("bitmap", {"screenDc", "memoryDc"})
    BY <1>32 DEF GdiFails, Step, Return, Refs, GdiHandles, search, fields, screen, seen
  <1>33. CASE GdiFails("blit", GdiHandles)
    BY <1>33 DEF GdiFails, Step, Return, Refs, GdiHandles, search, fields, screen, seen
  <1>34. CASE GdiBlit
    BY <1>34, <1>0 DEF GdiBlit, Step, Return, Refs, GdiHandles, Cropped, search, fields, screen,
         seen
  <1>35. CASE Leave
    BY <1>35 DEF Leave, Step, search, fields, screen, seen
  <1>36. CASE Destroy
    BY <1>36 DEF Destroy, Step, Shutdown, Refs, search, fields, screen, seen
  <1>37. ASSUME NEW p \in Pics, Paint(p) PROVE FieldsTyped'
    BY <1>37 DEF Paint, Step, search, fields, screen, seen
  <1>38. ASSUME NEW w \in Widths, Resize(w) PROVE FieldsTyped'
    <2>. USE <1>38 DEF Resize, search, fields, screen, seen
    <2>1. valid' \in BOOLEAN
      <3>1. valid' = valid \/ valid' = FALSE
        OBVIOUS
      <3>. QED
        BY <3>1
    <2>2. UNCHANGED <<pc, first, fields, out, result>>
      OBVIOUS
    <2>. QED
      BY <2>1, <2>2
  <1>39. CASE UNCHANGED vars
    BY <1>39 DEF vars, search, fields, screen, seen
  <1>. QED
    BY <1>1, <1>2, <1>3, <1>4, <1>5, <1>6, <1>7, <1>8, <1>9, <1>10, <1>11, <1>12, <1>13, <1>14,
       <1>15, <1>16, <1>17, <1>18, <1>19, <1>20, <1>21, <1>22, <1>23, <1>24, <1>25, <1>26,
       <1>27, <1>28, <1>29, <1>30, <1>31, <1>32, <1>33, <1>34, <1>35, <1>36, <1>37, <1>38, <1>39 DEF Next, Initialize, AcquireDxgi, AcquireGdi

\* o is p, or is found before it.
NotAfter(o, p) == o[1] < p[1] \/ (o[1] = p[1] /\ o[2] <= p[2])

\* The outputs the search has looked at.
Visited ==
    {o \in Attached : o[1] < ai \/ (pc = "outputs" /\ o[1] = ai /\ o[2] < oi)}

\* o is the one to take among S.
Chosen(o, S) ==
    /\ o \in S
    /\ \A p \in S : (IsPrimary(o) => IsPrimary(p)) => NotAfter(o, p)
    /\ ~IsPrimary(o) => \A p \in S : ~IsPrimary(p)

SearchInv ==
    /\ pc \in {"adapters", "outputs"} =>
          IF best = NoOutput THEN Visited = {} ELSE Chosen(best, Visited)
    /\ pc \in {"device", "duplicate"} => Chosen(best, Attached)

LEMMA VisitedPair ==
    ASSUME SearchTyped, pc = "outputs", oi <= Len(layout[ai])
    PROVE  /\ <<ai, oi>> # NoOutput
           /\ <<ai, oi>> \in Attached <=> layout[ai][oi] # "detached"
           /\ \A o \in Visited : o # <<ai, oi>> /\ o # NoOutput /\ NotAfter(o, <<ai, oi>>)
  <1>1. Len(layout) \in Nat /\ Len(layout[ai]) \in 0 .. Outputs
    BY LayoutLength, CountsAssumption DEF SearchTyped
  <1>. QED
    BY <1>1, CountsAssumption DEF SearchTyped, NoOutput, Attached, Visited, NotAfter

\* The search takes the first of the primary outputs it visits, or of all.
LEMMA SearchStep ==
    ASSUME SearchTyped, SearchInv, PointInv, [Next]_vars
    PROVE  SearchInv'
  <1>. USE DEF SearchInv, SearchTyped, search
  <1>1. ASSUME NEW l \in Layouts, CreateFactory(l) PROVE SearchInv'
    <2>1. Visited' = {}
      <3>1. \A o \in Attached' : o[1] >= 1
        BY LayoutLength, CountsAssumption, <1>1 DEF Attached, CreateFactory
      <3>. QED
        BY <1>1, <3>1, LayoutLength, CountsAssumption DEF CreateFactory, Step, Visited, Attached
    <2>. QED
      BY <1>1, <2>1 DEF CreateFactory, Step
  <1>2. CASE NextAdapter
    <2>1. Visited' = Visited
      BY <1>2, CountsAssumption, LayoutLength DEF NextAdapter, Step, Visited, Attached
    <2>. QED
      BY <1>2, <2>1 DEF NextAdapter, Step, Chosen, IsPrimary
  <1>3. CASE NextOutput
    <2>. DEFINE d == <<ai, oi>>
    <2>. USE <1>3 DEF NextOutput, Step
    <2>1. /\ d # NoOutput
          /\ d \in Attached <=> layout[ai][oi] # "detached"
          /\ \A o \in Visited : o # d /\ o # NoOutput /\ NotAfter(o, d)
      BY VisitedPair
    <2>2. Visited' = Visited \cup {o \in {d} : o \in Attached}
      BY CountsAssumption, LayoutLength DEF Visited, Attached
    <2>3. \A o : IsPrimary(o)' <=> IsPrimary(o)
      BY DEF IsPrimary
    <2>4. NotAfter(d, d)
      BY DEF NotAfter
    <2>5. CASE best = NoOutput /\ d \in Attached
      <3>1. best' = d /\ Visited' = {d}
        BY <2>1, <2>2, <2>5 DEF Better
      <3>. QED
        BY <2>1, <2>3, <2>4, <3>1 DEF Chosen
    <2>6. CASE best # NoOutput /\ d \in Attached /\ IsPrimary(d) /\ ~IsPrimary(best)
      <3>1. best' = d /\ Visited' = Visited \cup {d}
        BY <2>1, <2>2, <2>6 DEF Better
      <3>2. \A p \in Visited : ~IsPrimary(p)
        BY <2>6 DEF Chosen
      <3>. QED
        BY <2>1, <2>3, <2>4, <2>6, <3>1, <3>2 DEF Chosen
    <2>7. CASE best # NoOutput /\ d \in Attached /\ ~(IsPrimary(d) /\ ~IsPrimary(best))
      <3>1. best' = best /\ Visited' = Visited \cup {d}
        BY <2>1, <2>2, <2>7 DEF Better
      <3>2. Chosen(best, Visited)
        BY <2>7
      <3>3. NotAfter(best, d)
        BY <2>1, <3>2 DEF Chosen
      <3>. QED
        BY <2>3, <2>7, <3>1, <3>2, <3>3 DEF Chosen
    <2>8. CASE d \notin Attached
      <3>1. best' = best /\ Visited' = Visited
        BY <2>1, <2>2, <2>8 DEF Better
      <3>. QED
        BY <2>3, <3>1 DEF Chosen
    <2>. QED
      BY <2>5, <2>6, <2>7, <2>8
  <1>4. CASE OutputsDone
    <2>1. Visited' = Visited
      BY <1>4, CountsAssumption, LayoutLength DEF OutputsDone, Step, Visited, Attached
    <2>. QED
      BY <1>4, <2>1 DEF OutputsDone, Step, Chosen, IsPrimary
  <1>5. CASE AdaptersDone
    <2>1. Visited = Attached
      BY <1>5, CountsAssumption, LayoutLength DEF AdaptersDone, Step, Visited, Attached
    <2>. QED
      BY <1>5, <2>1 DEF AdaptersDone, Step, Chosen, IsPrimary, Attached
  <1>6. CASE Begin
    BY <1>6 DEF Begin, Step, fields, screen, seen
  <1>7. CASE CreateFactoryFails
    BY <1>7 DEF CreateFactoryFails, Step, Shutdown, Refs, fields, screen, seen
  <1>8. CASE CreateDevice
    BY <1>8 DEF CreateDevice, Step, Refs, fields, screen, seen,
           Chosen, IsPrimary, Attached, Visited
  <1>9. CASE CreateDeviceFails
    BY <1>9 DEF CreateDeviceFails, Step, Refs, Forget, HeldBest, BestPair, fields, screen, seen
  <1>10. CASE Duplicate
    BY <1>10 DEF Duplicate, Step, Refs, Forget, HeldBest, BestPair, fields, screen, seen
  <1>11. CASE DuplicateFails
    BY <1>11 DEF DuplicateFails, Step, Refs, Forget, HeldBest, BestPair, fields, screen, seen
  <1>12. CASE UseGdi
    BY <1>12 DEF UseGdi, Step, Forget, fields, screen, seen
  <1>13. CASE UseGdiFails
    BY <1>13 DEF UseGdiFails, Step, Forget, fields, screen, seen
  <1>14. CASE NothingToAcquire
    BY <1>14 DEF NothingToAcquire, Step, Return, fields, screen, seen
  <1>15. CASE AcquireTimesOut
    BY <1>15 DEF AcquireTimesOut, Step, Return, fields, screen, seen
  <1>16. CASE AcquireFails
    BY <1>16 DEF AcquireFails, Step, Return, fields, screen, seen
  <1>17. CASE PointerMoved
    BY <1>17 DEF PointerMoved, Step, Return, fields, screen, seen
  <1>18. CASE Acquired
    BY <1>18 DEF Acquired, Step, Refs, fields, screen, seen
  <1>19. CASE QueryTexture
    BY <1>19 DEF QueryTexture, Step, Refs, fields, screen, seen
  <1>20. CASE QueryTextureFails
    BY <1>20 DEF QueryTextureFails, Step, Return, Refs, fields, screen, seen
  <1>21. CASE Stage
    BY <1>21 DEF Stage, Step, Refs, fields, screen, seen
  <1>22. CASE StageFails
    BY <1>22 DEF StageFails, Step, Return, Refs, fields, screen, seen
  <1>23. CASE MapFails
    BY <1>23 DEF MapFails, Step, Return, Refs, fields, screen, seen
  <1>24. CASE Map
    BY <1>24 DEF Map, Step, Return, Refs, fields, screen, seen
  <1>25. CASE GdiMetrics
    BY <1>25 DEF GdiMetrics, Step, fields, screen, seen
  <1>26. CASE GdiMetricsFails
    BY <1>26 DEF GdiMetricsFails, Step, Return, fields, screen, seen
  <1>27. CASE GdiMake("dc", "memory", "screenDc")
    BY <1>27 DEF GdiMake, Step, Refs, fields, screen, seen
  <1>28. CASE GdiMake("memory", "bitmap", "memoryDc")
    BY <1>28 DEF GdiMake, Step, Refs, fields, screen, seen
  <1>29. CASE GdiMake("bitmap", "blit", "bitmap")
    BY <1>29 DEF GdiMake, Step, Refs, fields, screen, seen
  <1>30. CASE GdiFails("dc", {})
    BY <1>30 DEF GdiFails, Step, Return, Refs, GdiHandles, fields, screen, seen
  <1>31. CASE GdiFails("memory", {"screenDc"})
    BY <1>31 DEF GdiFails, Step, Return, Refs, GdiHandles, fields, screen, seen
  <1>32. CASE GdiFails("bitmap", {"screenDc", "memoryDc"})
    BY <1>32 DEF GdiFails, Step, Return, Refs, GdiHandles, fields, screen, seen
  <1>33. CASE GdiFails("blit", GdiHandles)
    BY <1>33 DEF GdiFails, Step, Return, Refs, GdiHandles, fields, screen, seen
  <1>34. CASE GdiBlit
    BY <1>34 DEF GdiBlit, Step, Return, Refs, GdiHandles, Cropped, fields, screen, seen
  <1>35. CASE Leave
    BY <1>35 DEF Leave, Step, fields, screen, seen
  <1>36. CASE Destroy
    BY <1>36 DEF Destroy, Step, Shutdown, Refs, fields, screen, seen
  <1>37. ASSUME NEW p \in Pics, Paint(p) PROVE SearchInv'
    BY <1>37 DEF Paint, Step, fields, screen, seen,
           Chosen, IsPrimary, Attached, Visited
  <1>38. ASSUME NEW w \in Widths, Resize(w) PROVE SearchInv'
    BY <1>38 DEF Resize, Step, fields, screen, seen,
           Chosen, IsPrimary, Attached, Visited
  <1>39. CASE UNCHANGED vars
    BY <1>39 DEF vars, fields, screen, seen, Chosen, IsPrimary, Attached, Visited
  <1>. QED
    BY <1>1, <1>2, <1>3, <1>4, <1>5, <1>6, <1>7, <1>8, <1>9, <1>10, <1>11, <1>12, <1>13, <1>14, <1>15, <1>16, <1>17, <1>18, <1>19,
       <1>20, <1>21, <1>22, <1>23, <1>24, <1>25, <1>26, <1>27, <1>28, <1>29, <1>30, <1>31,
       <1>32, <1>33, <1>34, <1>35, <1>36, <1>37, <1>38, <1>39 DEF Next, Initialize, AcquireDxgi, AcquireGdi

CaptureInv ==
    /\ PointInv /\ ScreenInv /\ HeldInv /\ SearchTyped /\ SearchInv /\ FieldsTyped
    /\ DeliveredInv


LEMMA CaptureInit == Init => CaptureInv
  <1>. SUFFICES ASSUME Init PROVE CaptureInv
    OBVIOUS
  <1>. USE DEF Init
  <1>1. PointInv
    BY DEF PointInv, Searching
  <1>2. HeldInv
    BY DEF HeldInv, Held, One, Locals, Searching, Fields
  <1>3. DeliveredInv
    BY DEF DeliveredInv, IdleMeansDelivered
  <1>4. ScreenInv
    BY DEF ScreenInv
  <1>5. SearchTyped
    BY NoLayout DEF SearchTyped
  <1>6. SearchInv /\ FieldsTyped
    BY DEF SearchInv, FieldsTyped
  <1>. QED
    BY <1>1, <1>2, <1>3, <1>4, <1>5, <1>6 DEF CaptureInv

LEMMA CaptureStep == CaptureInv /\ [Next]_vars => CaptureInv'
  BY PointStep, ScreenStep, HeldStep, SearchTypedStep, SearchStep, FieldsTypedStep,
     DeliveredStep DEF CaptureInv

\* The inductive invariant.
THEOREM CaptureInductive == Spec => []CaptureInv
  BY CaptureInit, CaptureStep, PTL DEF Spec

\* Every variable keeps its type: no counter of the search runs over, and no object is
\* referred to more than twice.
THEOREM CaptureTyped == Spec => []CaptureTypeOK
  <1>1. CaptureInv => CaptureTypeOK
    BY HeldTyped DEF CaptureInv, PointInv, ScreenInv, SearchTyped, FieldsTyped, CaptureTypeOK
  <1>. QED
    BY <1>1, CaptureInductive, PTL

\* The output captured is the first primary one, or the first attached one.
THEOREM BestIsFirst == Spec => []BestOutput
  <1>1. ASSUME NEW S \in SUBSET Attached, NEW o \in S, \A p \in S : NotAfter(o, p)
        PROVE  o = FirstOf(S)
    <2>1. \A p \in S : p = <<p[1], p[2]>> /\ p[1] \in Int /\ p[2] \in Int
      BY DEF Attached
    <2>2. \A x \in S : (\A p \in S : NotAfter(x, p)) => x = o
      BY <1>1, <2>1 DEF NotAfter
    <2>. QED
      BY <1>1, <2>2 DEF FirstOf, NotAfter
  <1>2. CaptureInv => BestOutput
    <2>. SUFFICES ASSUME CaptureInv, pc \in {"device", "duplicate"}
                  PROVE  BestOutput
      BY DEF BestOutput
    <2>. DEFINE primaries == {o \in Attached : IsPrimary(o)}
    <2>1. Chosen(best, Attached)
      BY DEF CaptureInv, SearchInv
    <2>2. CASE IsPrimary(best)
      <3>1. best \in primaries /\ \A p \in primaries : NotAfter(best, p)
        BY <2>1, <2>2 DEF Chosen
      <3>2. best = FirstOf(primaries)
        BY <1>1, <3>1
      <3>. QED
        BY <3>1, <3>2 DEF BestOutput
    <2>3. CASE ~IsPrimary(best)
      <3>1. primaries = {} /\ best \in Attached /\ \A p \in Attached : NotAfter(best, p)
        BY <2>1, <2>3 DEF Chosen
      <3>2. best = FirstOf(Attached)
        BY <1>1, <3>1
      <3>. QED
        BY <3>1, <3>2 DEF BestOutput
    <2>. QED
      BY <2>2, <2>3
  <1>. QED
    BY <1>2, CaptureInductive, PTL

\* Whichever call fails, between the calls exactly what the fields name is held.
THEOREM CaptureHoldsNothing == Spec => []NothingLeaks
  <1>1. CaptureInv => NothingLeaks
    BY DEF CaptureInv, HeldInv, Held, One, Locals, Searching, NothingLeaks
  <1>. QED
    BY <1>1, CaptureInductive, PTL

\* An idle answer means that the viewer has the desktop as the call found it.
THEOREM IdleIsDelivered == Spec => []IdleMeansDelivered
  <1>1. CaptureInv => IdleMeansDelivered
    BY DEF CaptureInv, DeliveredInv
  <1>. QED
    BY <1>1, CaptureInductive, PTL

=============================================================================

---------------------------- MODULE KuBusy_proofs ----------------------------
(***************************************************************************)
(* Proofs about KuBusy, for any directories, any lists to play and any     *)
(* number of commands: the types, that one slideshow plays at most, that a *)
(* paused one waits in fullscreen, and that kuView is not busy at rest.    *)
(***************************************************************************)
EXTENDS KuBusy, SequenceTheorems, FiniteSetTheorems, TLAPS

-----------------------------------------------------------------------------
(* The inductive invariant.                                                *)

\* One of the frames is of this call.
Has(frames, call) == \E i \in DOMAIN frames : frames[i].call = call

\* One of them at most is a slideshow.
OneSlides(frames) ==
  \A i, j \in DOMAIN frames :
    frames[i].call = "slides" /\ frames[j].call = "slides" => i = j

\* The calls that have not returned agree with the flags: mIsSlideshow is set
\* while one of them is a slideshow, and then in fullscreen; mIsBusy only while
\* one of them loads thumbnails or plays.
Agree(frames, show, full, working) ==
  /\ ~Has(frames, "crashed") /\ OneSlides(frames)
  /\ show <=> Has(frames, "slides")
  /\ show => full
  /\ working => Has(frames, "slides") \/ Has(frames, "thumbs")

\* Closing kuView leaves the flags as they are, and so does its end.
Calls == quit \/ stack = <<Crashed>> \/ Agree(stack, isSlideshow, fullscreen, busy)

\* The command line is executed before anything else.
Fresh == left = MaxCommands => stack = <<>>

IInv == TypeOK /\ PausedInFullScreen /\ Calls /\ Fresh

-----------------------------------------------------------------------------
(* Lemmas about frames and places.                                         *)

\* The frames that the calls push.
LEMMA Frames ==
  /\ \A n \in 0..Files : Thumbs(n) \in Frame /\ Thumbs(n).call = "thumbs"
  /\ \A d \in Dirs : Locating(d) \in Frame /\ Locating(d).call = "locate"
  /\ \A at \in {"sleep", "moved", "arrived"}, c \in Position \cup {NoFile} :
       Slides(at, c) \in Frame /\ Slides(at, c).call = "slides"
  /\ \A then \in {"stop", "next", "command"} :
       Starting(then) \in Frame /\ Starting(then).call = "start"
  /\ [call |-> "next"] \in Frame /\ [call |-> "next"].call = "next"
  /\ Crashed \in Frame /\ Crashed.call = "crashed"
  BY DEF Frame, Thumbs, Locating, Slides, Starting, Crashed

\* What a frame holds, by its call.
LEMMA FrameFields ==
  ASSUME NEW f \in Frame
  PROVE  /\ f.call \in {"thumbs", "locate", "slides", "start", "next", "crashed"}
         /\ f.call = "thumbs" => f.left \in 0..Files
         /\ f.call = "locate" => f.dir \in Dirs
         /\ f.call = "slides" => f.current \in Position \cup {NoFile}
         /\ f.call = "crashed" => f = Crashed
  BY DEF Frame, Crashed

\* A call goes on the stack.
LEMMA Pushed ==
  ASSUME NEW s \in Seq(Frame), NEW f \in Frame
  PROVE  /\ Append(s, f) \in Seq(Frame)
         /\ \A call : Has(Append(s, f), call) <=> Has(s, call) \/ f.call = call
         /\ OneSlides(Append(s, f)) <=>
              OneSlides(s) /\ (f.call = "slides" => ~Has(s, "slides"))
  <1> DEFINE a == Append(s, f)
  <1>1. /\ a \in Seq(Frame) /\ Len(s) \in Nat /\ DOMAIN s = 1..Len(s)
        /\ DOMAIN a = 1..Len(s) + 1 /\ a[Len(s) + 1] = f
        /\ \A i \in DOMAIN s : a[i] = s[i] /\ i \in DOMAIN a /\ i # Len(s) + 1
        /\ \A i \in DOMAIN a : i \in DOMAIN s \/ i = Len(s) + 1
    OBVIOUS
  <1> HIDE DEF a
  <1>2. \A call : Has(a, call) <=> Has(s, call) \/ f.call = call
    BY <1>1 DEF Has
  <1>3. OneSlides(a) <=> OneSlides(s) /\ (f.call = "slides" => ~Has(s, "slides"))
    <2>1. ASSUME OneSlides(a)
          PROVE  OneSlides(s)
      BY <1>1, <2>1 DEF OneSlides
    <2>2. ASSUME OneSlides(a), f.call = "slides"
          PROVE  ~Has(s, "slides")
      BY <1>1, <2>2 DEF OneSlides, Has
    <2>3. ASSUME OneSlides(s), f.call = "slides" => ~Has(s, "slides"),
                 NEW i \in DOMAIN a, NEW j \in DOMAIN a,
                 a[i].call = "slides", a[j].call = "slides"
          PROVE  i = j
      BY <1>1, <2>3 DEF OneSlides, Has
    <2>4. QED
      BY <2>1, <2>2, <2>3 DEF OneSlides
  <1>4. QED
    BY <1>1, <1>2, <1>3 DEF a

\* The newest call, and the ones below it.
LEMMA Popped ==
  ASSUME stack \in Seq(Frame), stack # <<>>
  PROVE  /\ Below \in Seq(Frame) /\ Top \in Frame
         /\ \A call : Has(stack, call) <=> Has(Below, call) \/ Top.call = call
         /\ OneSlides(stack) <=>
              OneSlides(Below) /\ (Top.call = "slides" => ~Has(Below, "slides"))
  <1>1. Len(stack) \in Nat \ {0}
    BY EmptySeq
  <1>2. Below \in Seq(Frame) /\ Top \in Frame
    BY <1>1 DEF Below, Top
  <1>3. stack = Append(Below, Top)
    BY <1>1 DEF Below, Top
  <1>4. QED
    BY <1>2, <1>3, Pushed

\* The tree's selection stays in its directory, and in its type.
LEMMA Places ==
  ASSUME NEW p \in Position
  PROVE  /\ Next1(p) \in Position /\ Home(p) \in Position
         /\ FilePath(p) \in Position \cup {NoFile}
  <1>1. Files \in Nat \ {0}
    BY BusyAssumption
  <1>2. QED
    BY <1>1 DEF Position, Next1, Home, FilePath

\* The flags are flags, and the rest has its type.
LEMMA Types ==
  TypeOK <=>
    /\ stack \in Seq(Frame)
    /\ busy \in BOOLEAN /\ interrupted \in BOOLEAN /\ quit \in BOOLEAN
    /\ isSlideshow \in BOOLEAN /\ isPause \in BOOLEAN /\ fullscreen \in BOOLEAN
    /\ thumbnail \in BOOLEAN /\ repeat \in BOOLEAN
    /\ dirs \in Seq(Dirs) /\ index \in Nat
    /\ pos \in Position
    /\ dirname \in Dirs \cup {"none"}
    /\ left \in 0..MaxCommands
  BY DEF TypeOK

\* FreeImage's error handler only sets a flag.
LEMMA LoadType ==
  ASSUME TypeOK, NEW file, Load(file)
  PROVE  interrupted' \in BOOLEAN
  BY Types DEF Load

\* The tree's selection, of a file or of none.
LEMMA MoveType ==
  ASSUME TypeOK, NEW p \in Position, MoveTo(p) \/ Select(p)
  PROVE  pos' \in Position /\ interrupted' \in BOOLEAN
  BY Types, LoadType DEF MoveTo, Select

\* The tree's selection of a directory: thumbnails may go on the frames.
LEMMA SelectDirEffect ==
  ASSUME TypeOK, NEW d \in Dirs, NEW frames \in Seq(Frame), SelectDir(d, frames)
  PROVE  /\ stack' \in Seq(Frame) /\ pos' \in Position
         /\ dirname' \in Dirs \cup {"none"}
         /\ interrupted' \in BOOLEAN /\ busy' \in BOOLEAN
         /\ \A call : call # "thumbs" => (Has(stack', call) <=> Has(frames, call))
         /\ Has(frames, "thumbs") => Has(stack', "thumbs")
         /\ OneSlides(stack') <=> OneSlides(frames)
         /\ busy' => busy \/ Has(stack', "thumbs")
  <1>1. Files \in Nat \ {0}
    BY BusyAssumption
  <1>2. pos' \in Position
    BY <1>1 DEF SelectDir, Position
  <1>3. CASE stack' = frames /\ UNCHANGED <<dirname, busy, interrupted>>
    BY <1>2, <1>3, Types
  <1>4. CASE /\ stack' = Append(frames, Thumbs(Files - 1)) /\ dirname' = d
             /\ busy' = TRUE /\ Load(1)
    <2>1. Thumbs(Files - 1) \in Frame /\ Thumbs(Files - 1).call = "thumbs"
      BY <1>1, Frames
    <2>2. interrupted' \in BOOLEAN
      BY <1>4, LoadType
    <2>3. QED
      BY <1>2, <1>4, <2>1, <2>2, Pushed
  <1>5. QED
    BY <1>3, <1>4 DEF SelectDir

-----------------------------------------------------------------------------
(* Each step keeps the invariant.                                          *)


\* As many slideshows as before, and mIsBusy is not set for nothing.
LEMMA SameCalls ==
  ASSUME NEW s, NEW frames, NEW show, NEW full, NEW was, NEW now,
         Agree(s, show, full, was),
         \A call \in {"crashed", "slides"} : Has(frames, call) <=> Has(s, call),
         OneSlides(frames) <=> OneSlides(s),
         now => was \/ Has(frames, "thumbs"),
         now /\ Has(s, "thumbs") => Has(frames, "thumbs")
  PROVE  Agree(frames, show, full, now)
  BY DEF Agree

\* The newest call goes on and has less to do.
LEMMA Replaced ==
  ASSUME stack \in Seq(Frame), stack # <<>>, NEW f \in Frame, f.call = Top.call
  PROVE  /\ Append(Below, f) \in Seq(Frame)
         /\ \A call : Has(Append(Below, f), call) <=> Has(stack, call)
         /\ OneSlides(Append(Below, f)) <=> OneSlides(stack)
  BY Popped, Pushed

\* A call that returns.
LEMMA GoInv ==
  ASSUME IInv, Go
  PROVE  IInv'
  <1>1. /\ stack \in Seq(Frame) /\ busy \in BOOLEAN /\ interrupted \in BOOLEAN
        /\ quit \in BOOLEAN /\ isSlideshow \in BOOLEAN /\ isPause \in BOOLEAN
        /\ fullscreen \in BOOLEAN /\ thumbnail \in BOOLEAN /\ repeat \in BOOLEAN
        /\ dirs \in Seq(Dirs) /\ index \in Nat /\ pos \in Position
        /\ dirname \in Dirs \cup {"none"} /\ left \in 0..MaxCommands /\ TypeOK
    BY Types DEF IInv
  <1>2. /\ stack # <<>> /\ Top # Crashed
        /\ Below \in Seq(Frame) /\ Top \in Frame
        /\ \A call : Has(stack, call) <=> Has(Below, call) \/ Top.call = call
        /\ OneSlides(stack) <=>
             OneSlides(Below) /\ (Top.call = "slides" => ~Has(Below, "slides"))
    BY <1>1, Popped DEF Go
  <1>3. stack # <<Crashed>> /\ Top.call # "crashed"
    <2>1. Top.call # "crashed"
      BY <1>2, FrameFields
    <2>2. stack = <<Crashed>> => Top = Crashed
      BY DEF Top
    <2>3. QED
      BY <1>2, <2>1, <2>2
  <1>4. quit \/ Agree(stack, isSlideshow, fullscreen, busy)
    BY <1>3 DEF IInv, Calls
  <1>5. left' = left /\ quit' = quit /\ dirs' = dirs /\ thumbnail' = thumbnail /\ repeat' = repeat
    BY DEF Go, ThumbsGo, LocateGo, SlidesNext, SlidesOn, SlidesNextDir, SlidesArrived,
       SlidesHome, SlidesEnd, SlideshowPause, SlideshowPlay, SlideshowCanceled, TraverseGo,
       flags, playing, listing
  <1>6. Fresh'
    BY <1>2, <1>5 DEF IInv, Fresh
  <1>7. SUFFICES ASSUME TRUE
                 PROVE  /\ stack' \in Seq(Frame) /\ busy' \in BOOLEAN
                        /\ interrupted' \in BOOLEAN /\ isSlideshow' \in BOOLEAN
                        /\ isPause' \in BOOLEAN /\ fullscreen' \in BOOLEAN
                        /\ index' \in Nat /\ pos' \in Position
                        /\ dirname' \in Dirs \cup {"none"}
                        /\ isPause' => fullscreen'
                        /\ quit \/ Agree(stack', isSlideshow', fullscreen', busy')
    <2>1. ASSUME /\ stack' \in Seq(Frame) /\ busy' \in BOOLEAN
                 /\ interrupted' \in BOOLEAN /\ isSlideshow' \in BOOLEAN
                 /\ isPause' \in BOOLEAN /\ fullscreen' \in BOOLEAN
                 /\ index' \in Nat /\ pos' \in Position
                 /\ dirname' \in Dirs \cup {"none"}
                 /\ isPause' => fullscreen'
                 /\ quit \/ Agree(stack', isSlideshow', fullscreen', busy')
          PROVE  IInv'
      <3>1. TypeOK'
        BY <1>1, <1>5, <2>1 DEF TypeOK
      <3>2. PausedInFullScreen' /\ Calls'
        BY <1>5, <2>1 DEF PausedInFullScreen, Calls
      <3>3. QED
        BY <1>6, <3>1, <3>2 DEF IInv
    <2>2. QED
      BY <2>1
  \* The newest call goes on.
  <1>8. ASSUME NEW f \in Frame, f.call = Top.call, stack' = Append(Below, f),
               busy' = busy, isSlideshow' = isSlideshow, fullscreen' = fullscreen
        PROVE  /\ stack' \in Seq(Frame)
               /\ quit \/ Agree(stack', isSlideshow', fullscreen', busy')
    BY <1>1, <1>2, <1>4, <1>8, Replaced, SameCalls
  \* It returns, and was neither playing nor loading.
  <1>9. ASSUME Top.call \in {"locate", "start", "next"}, stack' = Below,
               busy' = busy, isSlideshow' = isSlideshow, fullscreen' = fullscreen
        PROVE  quit \/ Agree(stack', isSlideshow', fullscreen', busy')
    BY <1>2, <1>4, <1>9, SameCalls
  <1>10. CASE ThumbsGo
    <2>1. /\ Top.call = "thumbs" /\ Top.left \in 0..Files
          /\ isSlideshow' = isSlideshow /\ isPause' = isPause /\ fullscreen' = fullscreen
          /\ index' = index /\ pos' = pos /\ dirname' = dirname
      BY <1>2, <1>10, FrameFields DEF ThumbsGo, playing, listing
    <2>2. CASE stack' = Below /\ Unbusy
      <3>1. busy' \in BOOLEAN /\ interrupted' \in BOOLEAN /\ (quit \/ busy' = FALSE)
        BY <1>1, <2>2 DEF Unbusy
      <3>2. quit \/ Agree(stack', isSlideshow', fullscreen', busy')
        BY <1>2, <1>4, <2>1, <2>2, <3>1 DEF Agree
      <3>3. QED
        BY <1>1, <1>2, <2>1, <2>2, <3>1, <3>2 DEF IInv, PausedInFullScreen
    <2>3. CASE /\ Top.left # 0 /\ stack' = Append(Below, Thumbs(Top.left - 1))
               /\ Load(Files - Top.left + 1) /\ busy' = busy
      <3>1. Thumbs(Top.left - 1) \in Frame /\ Thumbs(Top.left - 1).call = "thumbs"
        <4>1. Top.left - 1 \in 0..Files
          BY <2>1, <2>3, BusyAssumption
        <4>2. QED
          BY <4>1, Frames
      <3>2. QED
        BY <1>1, <1>8, <2>1, <2>3, <3>1, LoadType DEF IInv, PausedInFullScreen
    <2>4. QED
      BY <1>10, <2>2, <2>3 DEF ThumbsGo
  <1>11. CASE LocateGo
    <2>1. /\ Top.call = "locate" /\ stack' = Below /\ Select([dir |-> Top.dir, file |-> 1])
          /\ isSlideshow' = isSlideshow /\ isPause' = isPause /\ fullscreen' = fullscreen
          /\ index' = index /\ dirname' = dirname /\ busy' = busy
      BY <1>11 DEF LocateGo, playing, listing
    <2>2. [dir |-> Top.dir, file |-> 1] \in Position
      BY <1>2, <2>1, FrameFields, BusyAssumption DEF Position
    <2>3. pos' \in Position /\ interrupted' \in BOOLEAN
      BY <1>1, <2>1, <2>2, MoveType
    <2>4. QED
      BY <1>1, <1>2, <1>9, <2>1, <2>3 DEF IInv, PausedInFullScreen
  <1>12. CASE SlidesNext \/ SlidesOn \/ SlidesArrived \/ SlidesHome
    <2>1. /\ Top.call = "slides" /\ busy' = busy /\ index' = index /\ dirname' = dirname
          /\ isSlideshow' = isSlideshow /\ isPause' = isPause /\ fullscreen' = fullscreen
      BY <1>12 DEF SlidesNext, SlidesOn, SlidesArrived, SlidesHome, flags, playing, listing
    <2>2. pos' \in Position /\ interrupted' \in BOOLEAN
      BY <1>1, <1>12, MoveType, Places
         DEF SlidesNext, SlidesOn, SlidesArrived, SlidesHome, flags
    <2>3. PICK f \in Frame : f.call = "slides" /\ stack' = Append(Below, f)
      <3>1. Top.current \in Position \cup {NoFile}
        BY <1>2, <2>1, FrameFields
      <3>2. /\ FilePath(pos) \in Position \cup {NoFile}
            /\ FilePath(Home(pos)) \in Position \cup {NoFile}
        BY <1>1, Places
      <3>3. CASE SlidesNext
        BY <3>1, <3>3, Frames DEF SlidesNext
      <3>4. CASE SlidesOn \/ SlidesArrived
        BY <3>2, <3>4, Frames DEF SlidesOn, SlidesArrived
      <3>5. CASE SlidesHome
        BY <3>2, <3>5, Frames DEF SlidesHome
      <3>6. QED
        BY <1>12, <3>3, <3>4, <3>5
    <2>4. QED
      BY <1>1, <1>8, <2>1, <2>2, <2>3 DEF IInv, PausedInFullScreen
  <1>13. CASE SlidesNextDir
    <2> DEFINE next == IF index + 1 >= Len(dirs) /\ repeat THEN (index + 1) % Len(dirs)
                                                         ELSE index + 1
               back == Append(Below, Slides("arrived", Top.current))
               frames == Append(back, Locating(dirs[next + 1]))
    <2>1. /\ Top.call = "slides" /\ index' = next /\ Len(dirs) > 1
          /\ index + 1 < Len(dirs) \/ repeat
          /\ SelectDir(dirs[next + 1], frames)
          /\ isSlideshow' = isSlideshow /\ isPause' = isPause /\ fullscreen' = fullscreen
      BY <1>13 DEF SlidesNextDir, playing
    <2>2. next \in Nat /\ next < Len(dirs)
      BY <1>1, <2>1
    <2>3. dirs[next + 1] \in Dirs
      BY <1>1, <2>2
    <2> HIDE DEF next
    <2>4. /\ Slides("arrived", Top.current) \in Frame
          /\ Slides("arrived", Top.current).call = "slides"
      BY <1>2, <2>1, FrameFields, Frames
    <2>5. /\ back \in Seq(Frame)
          /\ \A call : Has(back, call) <=> Has(stack, call)
          /\ OneSlides(back) <=> OneSlides(stack)
      BY <1>1, <1>2, <2>1, <2>4, Replaced
    <2> HIDE DEF back
    <2>6. /\ Locating(dirs[next + 1]) \in Frame
          /\ Locating(dirs[next + 1]).call = "locate"
      BY <2>3, Frames
    <2>7. /\ frames \in Seq(Frame)
          /\ \A call \in {"crashed", "slides", "thumbs"} :
               Has(frames, call) <=> Has(stack, call)
          /\ OneSlides(frames) <=> OneSlides(stack)
      BY <2>5, <2>6, Pushed
    <2> HIDE DEF frames
    <2>8. /\ stack' \in Seq(Frame) /\ pos' \in Position /\ dirname' \in Dirs \cup {"none"}
          /\ interrupted' \in BOOLEAN /\ busy' \in BOOLEAN
          /\ \A call \in {"crashed", "slides"} : Has(stack', call) <=> Has(stack, call)
          /\ Has(stack, "thumbs") => Has(stack', "thumbs")
          /\ OneSlides(stack') <=> OneSlides(stack)
          /\ busy' => busy \/ Has(stack', "thumbs")
      BY <1>1, <2>1, <2>3, <2>7, SelectDirEffect
    <2>9. quit \/ Agree(stack', isSlideshow', fullscreen', busy')
      BY <1>4, <2>1, <2>8, SameCalls
    <2>10. QED
      BY <1>1, <2>1, <2>2, <2>8, <2>9 DEF IInv, PausedInFullScreen
  <1>14. CASE SlidesEnd
    <2>1. /\ Top.call = "slides" /\ stack' = Below /\ Unbusy
          /\ index' \in {index, index + 1}
          /\ isPause' = isPause /\ pos' = pos /\ dirname' = dirname
          /\ IF interrupted /\ quit
             THEN fullscreen' = fullscreen /\ isSlideshow' = isSlideshow
             ELSE fullscreen' = (fullscreen /\ isPause) /\ isSlideshow' = FALSE
      BY <1>14 DEF SlidesEnd
    <2>2. busy' \in BOOLEAN /\ interrupted' \in BOOLEAN /\ (quit \/ busy' = FALSE)
      BY <1>1, <2>1 DEF Unbusy
    <2>3. quit \/ Agree(stack', isSlideshow', fullscreen', busy')
      BY <1>2, <1>4, <2>1, <2>2 DEF Agree
    <2>4. /\ fullscreen' \in BOOLEAN /\ isSlideshow' \in BOOLEAN
          /\ isPause' => fullscreen'
      BY <1>1, <2>1 DEF IInv, PausedInFullScreen
    <2>5. QED
      BY <1>1, <1>2, <2>1, <2>2, <2>3, <2>4
  <1>15. CASE SlideshowPause
    <2>1. /\ Top.call = "start" /\ interrupted' = TRUE
          /\ isPause' = (IF fullscreen THEN TRUE ELSE isPause)
          /\ stack' = Below \/ stack' = Append(Below, [call |-> "next"])
          /\ busy' = busy /\ index' = index /\ dirname' = dirname /\ pos' = pos
          /\ isSlideshow' = isSlideshow /\ fullscreen' = fullscreen
      BY <1>15 DEF SlideshowPause, Then, listing
    <2>2. /\ stack' \in Seq(Frame)
          /\ \A call \in {"crashed", "slides", "thumbs"} :
               Has(stack', call) <=> Has(stack, call)
          /\ OneSlides(stack') <=> OneSlides(stack)
      <3>1. CASE stack' = Below
        BY <1>2, <2>1, <3>1
      <3>2. CASE stack' = Append(Below, [call |-> "next"])
        <4> DEFINE f == [call |-> "next"]
        <4>1. f \in Frame /\ f.call = "next"
          BY Frames
        <4> HIDE DEF f
        <4>2. stack' = Append(Below, f)
          BY <3>2 DEF f
        <4>3. QED
          BY <1>2, <2>1, <4>1, <4>2, Pushed
      <3>3. QED
        BY <2>1, <3>1, <3>2
    <2>3. quit \/ Agree(stack', isSlideshow', fullscreen', busy')
      BY <1>4, <2>1, <2>2, SameCalls
    <2>4. QED
      BY <1>1, <2>1, <2>2, <2>3 DEF IInv, PausedInFullScreen
  <1>16. CASE SlideshowPlay
    <2> DEFINE f == Slides("sleep", FilePath(pos))
    <2>1. /\ Top.call = "start" /\ ~isSlideshow /\ stack' = Append(Below, f)
          /\ interrupted' = interrupted \/ Load(pos.file)
          /\ isSlideshow' = TRUE /\ isPause' = FALSE /\ fullscreen' = TRUE /\ busy' = TRUE
          /\ index' = index /\ dirname' = dirname /\ pos' = pos
      BY <1>16 DEF SlideshowPlay, listing
    <2>2. f \in Frame /\ f.call = "slides"
      BY <1>1, Places, Frames
    <2> HIDE DEF f
    <2>3. /\ stack' \in Seq(Frame)
          /\ \A call : Has(stack', call) <=> Has(Below, call) \/ call = "slides"
          /\ OneSlides(stack') <=> OneSlides(Below) /\ ~Has(Below, "slides")
      BY <1>2, <2>1, <2>2, Pushed
    <2>4. quit \/ Agree(stack', isSlideshow', fullscreen', busy')
      BY <1>2, <1>4, <2>1, <2>3 DEF Agree
    <2>5. interrupted' \in BOOLEAN
      BY <1>1, <2>1, LoadType
    <2>6. QED
      BY <1>1, <2>1, <2>3, <2>4, <2>5
  <1>17. CASE SlideshowCanceled
    <2>1. /\ Top.call = "start" /\ stack' = Below /\ busy' = busy
          /\ interrupted' = interrupted /\ index' = index /\ dirname' = dirname /\ pos' = pos
          /\ isSlideshow' = isSlideshow /\ isPause' = isPause /\ fullscreen' = fullscreen
      BY <1>17 DEF SlideshowCanceled, flags, playing, listing
    <2>2. QED
      BY <1>1, <1>2, <1>9, <2>1 DEF IInv, PausedInFullScreen
  <1>18. CASE TraverseGo
    <2>1. /\ Top.call = "next" /\ stack' = Below /\ MoveTo(Next1(pos))
          /\ busy' = busy /\ index' = index /\ dirname' = dirname
          /\ isSlideshow' = isSlideshow /\ isPause' = isPause /\ fullscreen' = fullscreen
      BY <1>18 DEF TraverseGo, playing, listing
    <2>2. pos' \in Position /\ interrupted' \in BOOLEAN
      BY <1>1, <2>1, MoveType, Places
    <2>3. QED
      BY <1>1, <1>2, <1>9, <2>1, <2>2 DEF IInv, PausedInFullScreen
  <1>19. QED
    BY <1>10, <1>11, <1>12, <1>13, <1>14, <1>15, <1>16, <1>17, <1>18 DEF Go

\* kuID_SLIDESHOW, also from a traverse command: the calls below stay.
LEMMA StartEffect ==
  ASSUME TypeOK, NEW then \in {"stop", "next"}, SlideshowStart(then)
  PROVE  /\ dirs' \in Seq(Dirs) /\ index' \in Nat
         /\ stack' \in Seq(Frame) /\ pos' \in Position /\ dirname' \in Dirs \cup {"none"}
         /\ interrupted' \in BOOLEAN /\ busy' \in BOOLEAN
         /\ \/ stack' = <<Crashed>>
            \/ /\ \A call \in {"crashed", "slides"} : Has(stack', call) <=> Has(stack, call)
               /\ Has(stack, "thumbs") => Has(stack', "thumbs")
               /\ OneSlides(stack') <=> OneSlides(stack)
               /\ busy' => busy \/ Has(stack', "thumbs")
  <1>1. /\ stack \in Seq(Frame) /\ busy \in BOOLEAN /\ interrupted \in BOOLEAN
        /\ dirs \in Seq(Dirs) /\ index \in Nat /\ pos \in Position
        /\ dirname \in Dirs \cup {"none"}
    BY Types
  <1>2. CASE dirs = <<>> /\ pos.file = 0
    BY <1>1, <1>2 DEF SlideshowStart, listing
  <1>3. CASE ~(dirs = <<>> /\ pos.file = 0)
    <2> DEFINE list == IF dirs = <<>> THEN <<pos.dir>> ELSE dirs
               k    == IF dirs = <<>> THEN 0 ELSE index
               next == Append(stack, Starting(then))
    <2>1. /\ dirs' = list /\ index' = k
          /\ IF k >= Len(list)
             THEN /\ stack' = <<Crashed>>
                  /\ UNCHANGED <<busy, interrupted, pos, dirname>>
             ELSE IF list[k + 1] # pos.dir
             THEN SelectDir(list[k + 1], Append(next, Locating(list[k + 1])))
             ELSE stack' = next /\ UNCHANGED <<busy, interrupted, pos, dirname>>
      BY <1>3 DEF SlideshowStart
    <2>2. list \in Seq(Dirs) /\ k \in Nat
      <3>1. pos.dir \in Dirs
        BY <1>1 DEF Position
      <3>2. QED
        BY <1>1, <3>1
    <2> HIDE DEF list, k
    <2>3. next \in Seq(Frame) /\ Starting(then) \in Frame /\ Starting(then).call = "start"
      BY <1>1, Frames, Pushed
    <2>4. /\ \A call \in {"crashed", "slides", "thumbs"} : Has(next, call) <=> Has(stack, call)
          /\ OneSlides(next) <=> OneSlides(stack)
      BY <1>1, <2>3, Pushed
    <2> HIDE DEF next
    <2>5. CASE k >= Len(list)
      <3>1. stack' \in Seq(Frame)
        <4>1. Crashed \in Frame
          BY Frames
        <4>2. stack' = <<Crashed>>
          BY <2>1, <2>5
        <4>3. QED
          BY <4>1, <4>2
      <3>2. QED
        BY <1>1, <2>1, <2>2, <2>5, <3>1
    <2>6. CASE k < Len(list) /\ list[k + 1] = pos.dir
      BY <1>1, <2>1, <2>2, <2>3, <2>4, <2>6
    <2>7. CASE k < Len(list) /\ list[k + 1] # pos.dir
      <3> DEFINE frames == Append(next, Locating(list[k + 1]))
      <3>1. SelectDir(list[k + 1], frames) /\ list[k + 1] \in Dirs
        BY <2>1, <2>2, <2>7
      <3>2. Locating(list[k + 1]) \in Frame /\ Locating(list[k + 1]).call = "locate"
        BY <3>1, Frames
      <3>3. /\ frames \in Seq(Frame)
            /\ \A call \in {"crashed", "slides", "thumbs"} :
                 Has(frames, call) <=> Has(stack, call)
            /\ OneSlides(frames) <=> OneSlides(stack)
        BY <2>3, <2>4, <3>2, Pushed
      <3> HIDE DEF frames
      <3>4. /\ stack' \in Seq(Frame) /\ pos' \in Position /\ dirname' \in Dirs \cup {"none"}
            /\ interrupted' \in BOOLEAN /\ busy' \in BOOLEAN
            /\ \A call \in {"crashed", "slides"} : Has(stack', call) <=> Has(stack, call)
            /\ Has(stack, "thumbs") => Has(stack', "thumbs")
            /\ OneSlides(stack') <=> OneSlides(stack)
            /\ busy' => busy \/ Has(stack', "thumbs")
        BY <3>1, <3>3, SelectDirEffect
      <3>5. QED
        BY <2>1, <2>2, <3>4
    <2>8. QED
      BY <2>2, <2>5, <2>6, <2>7
  <1>4. QED
    BY <1>2, <1>3

\* A command of the user, at rest or on top of the calls that yield.
LEMMA CommandInv ==
  ASSUME IInv, Command
  PROVE  IInv'
  <1>1. /\ stack \in Seq(Frame) /\ busy \in BOOLEAN /\ interrupted \in BOOLEAN
        /\ quit \in BOOLEAN /\ isSlideshow \in BOOLEAN /\ isPause \in BOOLEAN
        /\ fullscreen \in BOOLEAN /\ thumbnail \in BOOLEAN /\ repeat \in BOOLEAN
        /\ dirs \in Seq(Dirs) /\ index \in Nat /\ pos \in Position
        /\ dirname \in Dirs \cup {"none"} /\ left \in 0..MaxCommands /\ TypeOK
    BY Types DEF IInv
  <1>2. Commanding
    BY DEF Command, Slideshow, Traverse, Escape, FullScreen, Interrupt, Close,
       ToggleThumbnail, SlideshowCmd, SelectFile, Drop, SelectDirectory
  <1>3. stack # <<Crashed>>
    <2>1. SUFFICES ASSUME stack = <<Crashed>>
                   PROVE  FALSE
      OBVIOUS
    <2>2. Top = Crashed /\ stack # <<>>
      BY <2>1 DEF Top
    <2>3. QED
      BY <1>2, <2>2, Frames DEF Commanding, Yielding
  <1>4. ~quit /\ Agree(stack, isSlideshow, fullscreen, busy)
    BY <1>2, <1>3 DEF IInv, Calls, Commanding
  <1>5. left' = left - 1 /\ left > 0 /\ left' \in 0..MaxCommands /\ left' # MaxCommands
    BY <1>1, <1>2, BusyAssumption DEF Commanding
  <1>6. SUFFICES ASSUME TRUE
                 PROVE  /\ stack' \in Seq(Frame) /\ busy' \in BOOLEAN
                        /\ interrupted' \in BOOLEAN /\ quit' \in BOOLEAN
                        /\ isSlideshow' \in BOOLEAN /\ isPause' \in BOOLEAN
                        /\ fullscreen' \in BOOLEAN /\ thumbnail' \in BOOLEAN
                        /\ repeat' \in BOOLEAN /\ dirs' \in Seq(Dirs) /\ index' \in Nat
                        /\ pos' \in Position /\ dirname' \in Dirs \cup {"none"}
                        /\ isPause' => fullscreen'
                        /\ \/ quit' \/ stack' = <<Crashed>>
                           \/ Agree(stack', isSlideshow', fullscreen', busy')
    <2>1. ASSUME /\ stack' \in Seq(Frame) /\ busy' \in BOOLEAN
                 /\ interrupted' \in BOOLEAN /\ quit' \in BOOLEAN
                 /\ isSlideshow' \in BOOLEAN /\ isPause' \in BOOLEAN
                 /\ fullscreen' \in BOOLEAN /\ thumbnail' \in BOOLEAN
                 /\ repeat' \in BOOLEAN /\ dirs' \in Seq(Dirs) /\ index' \in Nat
                 /\ pos' \in Position /\ dirname' \in Dirs \cup {"none"}
                 /\ isPause' => fullscreen'
                 /\ \/ quit' \/ stack' = <<Crashed>>
                    \/ Agree(stack', isSlideshow', fullscreen', busy')
          PROVE  IInv'
      <3>1. TypeOK'
        BY <1>5, <2>1 DEF TypeOK
      <3>2. PausedInFullScreen' /\ Calls'
        BY <2>1 DEF PausedInFullScreen, Calls
      <3>3. Fresh'
        BY <1>5 DEF Fresh
      <3>4. QED
        BY <3>1, <3>2, <3>3 DEF IInv
    <2>2. QED
      BY <2>1
  <1>7. isPause => fullscreen
    BY DEF IInv, PausedInFullScreen
  <1>8. CASE Slideshow
    <2>1. /\ SlideshowStart("stop") /\ quit' = quit /\ isSlideshow' = isSlideshow
          /\ isPause' = isPause /\ fullscreen' = fullscreen /\ thumbnail' = thumbnail
          /\ repeat' = repeat
      BY <1>8 DEF Slideshow, playing
    <2>2. QED
      BY <1>1, <1>4, <1>7, <2>1, StartEffect, SameCalls
  <1>9. CASE Traverse
    <2>1. /\ quit' = quit /\ isSlideshow' = isSlideshow
          /\ isPause' = isPause /\ fullscreen' = fullscreen /\ thumbnail' = thumbnail
          /\ repeat' = repeat
      BY <1>9 DEF Traverse, playing
    <2>2. CASE isSlideshow
      <3>1. SlideshowStart("next")
        BY <1>9, <2>2 DEF Traverse
      <3>2. QED
        BY <1>1, <1>4, <1>7, <2>1, <3>1, StartEffect, SameCalls
    <2>3. CASE ~isSlideshow
      <3>1. /\ MoveTo(Next1(pos)) /\ stack' = stack /\ busy' = busy
            /\ dirs' = dirs /\ index' = index /\ dirname' = dirname
        BY <1>9, <2>3 DEF Traverse, listing
      <3>2. pos' \in Position /\ interrupted' \in BOOLEAN
        BY <1>1, <3>1, MoveType, Places
      <3>3. QED
        BY <1>1, <1>4, <1>7, <2>1, <3>1, <3>2
    <2>4. QED
      BY <1>1, <2>2, <2>3
  <1>10. CASE Escape \/ FullScreen
    <2>1. /\ stack' = stack /\ busy' = busy /\ quit' = quit /\ isSlideshow' = isSlideshow
          /\ pos' = pos /\ dirname' = dirname /\ thumbnail' = thumbnail /\ repeat' = repeat
      BY <1>10 DEF Escape, FullScreen
    <2>2. \/ dirs' = dirs /\ index' = index
          \/ dirs' = <<>> /\ index' = 0
      BY <1>10 DEF Escape, FullScreen, listing
    <2>3. /\ interrupted' \in BOOLEAN /\ isPause' = FALSE /\ fullscreen' \in BOOLEAN
          /\ isSlideshow => fullscreen' = fullscreen
      <3>1. CASE Escape
        BY <1>1, <3>1 DEF Escape
      <3>2. CASE FullScreen /\ (isSlideshow \/ isPause)
        BY <1>1, <3>2 DEF FullScreen
      <3>3. CASE FullScreen /\ ~(isSlideshow \/ isPause)
        BY <1>1, <3>3 DEF FullScreen
      <3>4. QED
        BY <1>10, <3>1, <3>2, <3>3
    <2>4. Agree(stack', isSlideshow', fullscreen', busy')
      BY <1>4, <2>1, <2>3 DEF Agree
    <2>5. dirs' \in Seq(Dirs) /\ index' \in Nat
      <3>1. dirs \in Seq(Dirs) /\ index \in Nat /\ <<>> \in Seq(Dirs) /\ 0 \in Nat
        BY <1>1
      <3>2. QED
        BY <2>2, <3>1, Zenon
    <2>6. isPause' \in BOOLEAN /\ (isPause' => fullscreen')
      BY <2>3
    <2>7. /\ stack' \in Seq(Frame) /\ busy' \in BOOLEAN /\ quit' \in BOOLEAN
          /\ isSlideshow' \in BOOLEAN /\ thumbnail' \in BOOLEAN /\ repeat' \in BOOLEAN
          /\ pos' \in Position /\ dirname' \in Dirs \cup {"none"}
      BY <1>1, <2>1, Zenon
    <2>8. QED
      BY <2>3, <2>4, <2>5, <2>6, <2>7, Zenon
  <1>11. CASE Interrupt \/ Close
    <2>1. /\ stack' = stack /\ busy' = busy /\ isSlideshow' = isSlideshow
          /\ isPause' = isPause /\ fullscreen' = fullscreen /\ dirs' = dirs /\ index' = index
          /\ pos' = pos /\ dirname' = dirname /\ thumbnail' = thumbnail /\ repeat' = repeat
          /\ interrupted' \in BOOLEAN /\ quit' \in BOOLEAN
      BY <1>1, <1>11 DEF Interrupt, Close, playing, listing
    <2>2. QED
      BY <1>1, <1>4, <1>7, <2>1
  <1>12. CASE ToggleThumbnail
    <2>1. /\ stack' = stack /\ busy' = busy /\ isSlideshow' = isSlideshow
          /\ isPause' = isPause /\ fullscreen' = fullscreen /\ dirs' = dirs /\ index' = index
          /\ pos' = pos /\ dirname' = dirname /\ thumbnail' = ~thumbnail /\ repeat' = repeat
          /\ interrupted' = interrupted /\ quit' = quit
      BY <1>12 DEF ToggleThumbnail, flags, playing, listing
    <2>2. QED
      BY <1>1, <1>4, <1>7, <2>1
  <1>13. CASE \E list \in Lists : SlideshowCmd(list)
    <2>1. PICK list \in Lists : SlideshowCmd(list)
      BY <1>13
    <2> DEFINE start  == <<Starting("command")>>
               frames == Append(start, Locating(list[1]))
    <2>2. /\ dirs' = list /\ repeat' \in {repeat, FALSE} /\ left = MaxCommands
          /\ IF list[1] # pos.dir THEN SelectDir(list[1], frames)
             ELSE stack' = start /\ UNCHANGED <<busy, interrupted, pos, dirname>>
          /\ quit' = quit /\ isSlideshow' = isSlideshow
          /\ isPause' = isPause /\ fullscreen' = fullscreen /\ thumbnail' = thumbnail
          /\ index' = index
      BY <2>1 DEF SlideshowCmd, playing
    <2>3. list \in Seq(Dirs) /\ list[1] \in Dirs
      BY BusyAssumption
    <2>4. stack = <<>>
      BY <2>2 DEF IInv, Fresh
    <2>5. /\ Starting("command") \in Frame /\ Starting("command").call = "start"
          /\ Locating(list[1]) \in Frame /\ Locating(list[1]).call = "locate"
      BY <2>3, Frames
    <2>6. start = Append(stack, Starting("command"))
      BY <2>4
    <2> HIDE DEF start
    <2>7. /\ start \in Seq(Frame)
          /\ \A call \in {"crashed", "slides", "thumbs"} : Has(start, call) <=> Has(stack, call)
          /\ OneSlides(start) <=> OneSlides(stack)
      BY <1>1, <2>5, <2>6, Pushed
    <2>8. /\ frames \in Seq(Frame)
          /\ \A call \in {"crashed", "slides", "thumbs"} : Has(frames, call) <=> Has(stack, call)
          /\ OneSlides(frames) <=> OneSlides(stack)
      BY <2>5, <2>7, Pushed
    <2> HIDE DEF frames
    <2>9. CASE list[1] # pos.dir
      <3>1. SelectDir(list[1], frames)
        BY <2>2, <2>9
      <3>2. /\ stack' \in Seq(Frame) /\ pos' \in Position /\ dirname' \in Dirs \cup {"none"}
            /\ interrupted' \in BOOLEAN /\ busy' \in BOOLEAN
            /\ \A call \in {"crashed", "slides"} : Has(stack', call) <=> Has(stack, call)
            /\ Has(stack, "thumbs") => Has(stack', "thumbs")
            /\ OneSlides(stack') <=> OneSlides(stack)
            /\ busy' => busy \/ Has(stack', "thumbs")
        BY <1>1, <2>3, <2>8, <3>1, SelectDirEffect
      <3>3. QED
        BY <1>1, <1>4, <1>7, <2>2, <2>3, <3>2, SameCalls
    <2>10. CASE list[1] = pos.dir
      <3>1. /\ stack' = start /\ busy' = busy /\ interrupted' = interrupted
            /\ pos' = pos /\ dirname' = dirname
        BY <2>2, <2>10
      <3>2. Agree(stack', isSlideshow', fullscreen', busy')
        BY <1>4, <2>2, <2>7, <3>1, SameCalls
      <3>3. QED
        BY <1>1, <1>7, <2>2, <2>3, <2>7, <3>1, <3>2
    <2>11. QED
      BY <2>9, <2>10
  <1>14. CASE \E p \in Position : SelectFile(p)
    <2>1. PICK p \in Position : SelectFile(p)
      BY <1>14
    <2>2. /\ stack' = stack /\ busy' = busy /\ isSlideshow' = isSlideshow /\ quit' = quit
          /\ isPause' = isPause /\ fullscreen' = fullscreen /\ dirs' = dirs /\ index' = index
          /\ dirname' = dirname /\ thumbnail' = thumbnail /\ repeat' = repeat
          /\ Select(p)
      BY <2>1 DEF SelectFile, playing, listing
    <2>3. pos' \in Position /\ interrupted' \in BOOLEAN
      BY <1>1, <2>2, MoveType
    <2>4. QED
      BY <1>1, <1>4, <1>7, <2>2, <2>3
  <1>15. CASE \E p \in Position : Drop(p)
    <2>1. PICK p \in Position : Drop(p)
      BY <1>15
    <2>2. /\ isSlideshow' = isSlideshow /\ quit' = quit
          /\ isPause' = isPause /\ fullscreen' = fullscreen /\ dirs' = dirs /\ index' = index
          /\ dirname' = dirname /\ thumbnail' = (thumbnail \/ ~fullscreen) /\ repeat' = repeat
          /\ Select(p)
          /\ \/ busy' = TRUE /\ stack' = Append(stack, Thumbs(1))
             \/ busy' = busy /\ stack' = stack
      BY <2>1 DEF Drop, playing, listing
    <2>3. pos' \in Position /\ interrupted' \in BOOLEAN
      BY <1>1, <2>2, MoveType
    <2>4. Thumbs(1) \in Frame /\ Thumbs(1).call = "thumbs"
      BY Frames, BusyAssumption
    <2>5. /\ stack' \in Seq(Frame) /\ busy' \in BOOLEAN
          /\ Agree(stack', isSlideshow', fullscreen', busy')
      <3>1. CASE busy' = TRUE /\ stack' = Append(stack, Thumbs(1))
        BY <1>1, <1>4, <2>2, <2>4, <3>1, Pushed, SameCalls
      <3>2. CASE busy' = busy /\ stack' = stack
        BY <1>1, <1>4, <2>2, <3>2
      <3>3. QED
        BY <2>2, <3>1, <3>2
    <2>6. QED
      BY <1>1, <1>7, <2>2, <2>3, <2>5
  <1>16. CASE \E d \in Dirs : SelectDirectory(d)
    <2>1. PICK d \in Dirs : SelectDirectory(d)
      BY <1>16
    <2>2. /\ isSlideshow' = isSlideshow /\ quit' = quit
          /\ isPause' = isPause /\ fullscreen' = fullscreen /\ dirs' = dirs /\ index' = index
          /\ thumbnail' = thumbnail /\ repeat' = repeat
          /\ SelectDir(d, stack)
      BY <2>1 DEF SelectDirectory, playing, listing
    <2>3. QED
      BY <1>1, <1>4, <1>7, <2>2, SelectDirEffect, SameCalls
  <1>17. QED
    BY <1>8, <1>9, <1>10, <1>11, <1>12, <1>13, <1>14, <1>15, <1>16 DEF Command

\* The calls and the flags stay what the invariant says they are.
THEOREM BusyInvariance == Spec => []IInv
  <1>1. Init => IInv
    <2>1. SUFFICES ASSUME Init
                   PROVE  IInv
      OBVIOUS
    <2>2. stack = <<>> /\ left = MaxCommands /\ isPause = FALSE
      BY <2>1 DEF Init
    <2>3. TypeOK
      <3>1. /\ stack \in Seq(Frame) /\ dirs \in Seq(Dirs) /\ index \in Nat
            /\ pos \in Position /\ dirname \in Dirs \cup {"none"}
            /\ left \in 0..MaxCommands
        BY <2>1, BusyAssumption DEF Init
      <3>2. /\ busy \in BOOLEAN /\ interrupted \in BOOLEAN /\ quit \in BOOLEAN
            /\ isSlideshow \in BOOLEAN /\ isPause \in BOOLEAN /\ fullscreen \in BOOLEAN
            /\ thumbnail \in BOOLEAN /\ repeat \in BOOLEAN
        BY <2>1 DEF Init
      <3>3. QED
        BY <3>1, <3>2, Types
    <2>4. Calls
      BY <2>1, <2>2 DEF Calls, Agree, Has, OneSlides, Init
    <2>5. QED
      BY <2>2, <2>3, <2>4 DEF IInv, Fresh, PausedInFullScreen
  <1>2. IInv /\ UNCHANGED vars => IInv'
    BY DEF IInv, TypeOK, PausedInFullScreen, Calls, Fresh, vars, flags, playing, listing
  <1>3. IInv /\ [Next]_vars => IInv'
    BY <1>2, GoInv, CommandInv DEF Next
  <1>4. QED
    BY <1>1, <1>3, PTL DEF Spec

-----------------------------------------------------------------------------
(* What follows from it.                                                   *)

\* The types: no call leaves its list, its directory or its pictures.
THEOREM BusyTypes == Spec => []TypeOK
  <1>1. IInv => TypeOK
    BY DEF IInv
  <1>2. QED
    BY <1>1, BusyInvariance, PTL

\* Nobody leaves fullscreen and forgets the pause.
THEOREM PauseKept == Spec => []PausedInFullScreen
  <1>1. IInv => PausedInFullScreen
    BY DEF IInv
  <1>2. QED
    BY <1>1, BusyInvariance, PTL

\* One slideshow at most, however the commands nest, and mIsSlideshow tells.
THEOREM NeverTwoSlideshows == Spec => []OneSlideshow
  <1>1. IInv => OneSlideshow
    <2>1. SUFFICES ASSUME IInv, ~quit, In("crashed") = {}
                   PROVE  /\ Cardinality(In("slides")) <= 1
                          /\ isSlideshow <=> In("slides") # {}
                          /\ isSlideshow => fullscreen
      BY DEF OneSlideshow
    <2>2. \A call : In(call) # {} <=> Has(stack, call)
      BY DEF In, Has
    <2>3. stack # <<Crashed>>
      <3>1. SUFFICES ASSUME stack = <<Crashed>>
                     PROVE  FALSE
        OBVIOUS
      <3>2. 1 \in DOMAIN stack /\ stack[1] = Crashed
        BY <3>1
      <3>3. QED
        BY <2>1, <3>2, Frames DEF In
    <2>4. Agree(stack, isSlideshow, fullscreen, busy)
      BY <2>1, <2>3 DEF IInv, Calls
    <2>5. Cardinality(In("slides")) <= 1
      <3>1. \A i, j \in In("slides") : i = j
        BY <2>4 DEF Agree, OneSlides, In
      <3>2. CASE In("slides") = {}
        BY <3>2, FS_EmptySet
      <3>3. CASE In("slides") # {}
        <4>1. PICK i : In("slides") = {i}
          BY <3>1, <3>3
        <4>2. Cardinality({i}) = 1
          BY FS_Singleton
        <4>3. QED
          BY <4>1, <4>2
      <3>4. QED
        BY <3>2, <3>3
    <2>6. QED
      BY <2>2, <2>4, <2>5 DEF Agree
  <1>2. QED
    BY <1>1, BusyInvariance, PTL

\* When every call has returned, kuView is not busy any more.
THEOREM FreeWhenAtRest == Spec => []FreeAtRest
  <1>1. IInv => FreeAtRest
    <2>1. SUFFICES ASSUME IInv, stack = <<>>, ~quit
                   PROVE  ~busy
      BY DEF FreeAtRest
    <2>2. stack # <<Crashed>>
      BY <2>1
    <2>3. Agree(stack, isSlideshow, fullscreen, busy)
      BY <2>1, <2>2 DEF IInv, Calls
    <2>4. QED
      BY <2>1, <2>3 DEF Agree, Has
  <1>2. QED
    BY <1>1, BusyInvariance, PTL
=============================================================================

------------------------------- MODULE KuBusy -------------------------------
(***************************************************************************)
(* What kuView does for a long time in the UI thread: the slideshow        *)
(* (kuFrame::PlaySlideshow, src/src/kuFrame.cpp) and the loading of        *)
(* thumbnails (kuMultipleScrolled::ReloadThumbs and AddThumbs,             *)
(* src/src/kuMultipleScrolled.cpp).                                        *)
(*                                                                         *)
(* Both call Yield() between two pictures, so that the user can give       *)
(* commands, and a command may begin another of them on top: the calls     *)
(* form a stack, and only the top one goes on.  They share kuApp's mIsBusy *)
(* and mIsInterrupted, the fields of the frame that tell a slideshow from  *)
(* a paused one, and the list of the directories to play.                  *)
(*                                                                         *)
(* Not followed here: archives, which play without the list, empty         *)
(* directories, and the thumbnails themselves.                             *)
(***************************************************************************)
EXTENDS Integers, Sequences, FiniteSets

CONSTANTS
  Dirs,        \* the directories
  Files,       \* how many pictures each of them holds
  Broken,      \* the places of pictures FreeImage reports an error for
  Lists,       \* the directories a command line may give to play
  MaxCommands  \* bound of the model: how many commands the user gives

ASSUME BusyAssumption ==
  /\ IsFiniteSet(Dirs) /\ Dirs # {}
  /\ Files \in Nat \ {0}
  /\ Broken \subseteq 1..Files
  /\ Lists \subseteq Seq(Dirs) \ {<<>>}
  /\ MaxCommands \in Nat

VARIABLES
  stack,        \* the calls that have not returned, the newest one last
  busy,         \* kuApp::mIsBusy
  interrupted,  \* kuApp::mIsInterrupted
  quit,         \* kuApp::mQuit
  isSlideshow,  \* kuFrame::mIsSlideshow
  isPause,      \* kuFrame::mIsPause
  fullscreen,   \* kuFrame::IsFullScreen()
  dirs,         \* kuFrame::mSlideshowDirs
  index,        \* kuFrame::mSlideshowIndex
  pos,          \* the tree's selection: the file, or the directory (0)
  dirname,      \* kuMultipleScrolled::mDirname
  thumbnail,    \* kuFrame::mIsThumbnail
  repeat,       \* kuOptions::mSlideshowRepeat
  left          \* how many commands the user still gives

flags   == <<busy, interrupted, quit>>
playing == <<isSlideshow, isPause, fullscreen>>
listing == <<dirs, index>>
vars == <<stack, flags, playing, listing, pos, dirname, thumbnail, repeat, left>>

Position == [dir : Dirs, file : 0..Files]
NoFile   == [dir |-> "none", file |-> 0]

\* The calls, each with what it still has to do.
Thumbs(n)      == [call |-> "thumbs", left |-> n]
Locating(d)    == [call |-> "locate", dir |-> d]
Slides(at, c)  == [call |-> "slides", at |-> at, current |-> c]
Starting(then) == [call |-> "start", then |-> then]
Crashed        == [call |-> "crashed"]

Top == stack[Len(stack)]
Below == SubSeq(stack, 1, Len(stack) - 1)
In(call) == {i \in DOMAIN stack : stack[i].call = call}

\* GetFilePath(): empty for a directory.
FilePath(p) == IF p.file = 0 THEN NoFile ELSE p

-----------------------------------------------------------------------------
(* What several of them do.                                                *)

\* A picture is loaded in the UI thread: FreeImage's error handler interrupts
\* whatever runs.  A good picture, or one that is cached, does not call it.
Load(file) ==
  \/ UNCHANGED interrupted
  \/ file \in Broken /\ interrupted' = TRUE

\* The tree selects a file, which shows it.
Select(p) == pos' = p /\ Load(p.file)

\* The tree selects a directory, from a call that leaves frames on the stack:
\* thumbnails are loaded if nobody is busy and they are not those shown.
SelectDir(d, frames) ==
  /\ pos' = [dir |-> d, file |-> 0]
  /\ IF thumbnail /\ ~busy /\ d # dirname
     THEN /\ stack' = Append(frames, Thumbs(Files - 1))
          /\ dirname' = d
          /\ busy' = TRUE
          /\ Load(1)
     ELSE stack' = frames /\ UNCHANGED <<dirname, busy, interrupted>>

\* Unbusy, had it returned early for every interrupt.
UnbusyEarly ==
  IF interrupted THEN UNCHANGED <<busy, interrupted>>
  ELSE busy' = FALSE /\ UNCHANGED interrupted

\* The end of ReloadThumbs, AddThumbs and PlaySlideshow; what a closed frame's
\* calls leave behind nobody sets right.
Unbusy ==
  IF interrupted /\ quit THEN UNCHANGED <<busy, interrupted>>
  ELSE busy' = FALSE /\ interrupted' = FALSE

-----------------------------------------------------------------------------
(* The calls go on after their Yield().                                    *)

\* ThumbsGo, had its loop gone one picture too far.
ThumbsGoOver ==
  /\ Top.call = "thumbs"
  /\ IF interrupted \/ Top.left < 0
     THEN stack' = Below /\ Unbusy
     ELSE stack' = Append(Below, Thumbs(Top.left - 1)) /\ UNCHANGED <<busy, interrupted>>
  /\ UNCHANGED <<quit, playing, listing, pos, dirname, thumbnail, repeat, left>>

\* The next thumbnail, unless interrupted.
ThumbsGo ==
  /\ Top.call = "thumbs"
  /\ IF interrupted \/ Top.left = 0
     THEN stack' = Below /\ Unbusy
     ELSE /\ stack' = Append(Below, Thumbs(Top.left - 1))
          /\ Load(Files - Top.left + 1)
          /\ UNCHANGED busy
  /\ UNCHANGED <<quit, playing, listing, pos, dirname, thumbnail, repeat, left>>

\* kuGenericDirCtrl::Locate, after the directory itself was selected: its first
\* file is.
LocateGo ==
  /\ Top.call = "locate"
  /\ stack' = Below
  /\ Select([dir |-> Top.dir, file |-> 1])
  /\ UNCHANGED <<busy, quit, playing, listing, dirname, thumbnail, repeat, left>>

\* Traverse(kuID_NEXT) and (kuID_HOME).
Next1(p) == IF p.file = 0 \/ p.file = Files THEN p ELSE [p EXCEPT !.file = @ + 1]
Home(p)  == IF p.file = 0 THEN p ELSE [p EXCEPT !.file = 1]

MoveTo(p) == IF p = pos THEN UNCHANGED <<pos, interrupted>> ELSE Select(p)

\* PlaySlideshow, asleep: the next picture, unless interrupted.
SlidesNext ==
  /\ Top.call = "slides" /\ Top.at = "sleep" /\ ~interrupted
  /\ MoveTo(Next1(pos))
  /\ stack' = Append(Below, Slides("moved", Top.current))
  /\ UNCHANGED <<busy, quit, playing, listing, dirname, thumbnail, repeat, left>>

Last == FilePath(pos) = Top.current

\* SlidesOn, had it not remembered which picture is shown.
SlidesOnStale ==
  /\ Top.call = "slides" /\ Top.at = "moved" /\ ~Last
  /\ stack' = Append(Below, Slides("sleep", Top.current))
  /\ UNCHANGED <<flags, playing, listing, pos, dirname, thumbnail, repeat, left>>

\* There was a next picture.
SlidesOn ==
  /\ Top.call = "slides" /\ Top.at = "moved" /\ ~Last
  /\ stack' = Append(Below, Slides("sleep", FilePath(pos)))
  /\ UNCHANGED <<flags, playing, listing, pos, dirname, thumbnail, repeat, left>>

\* It was the last one of this directory, and another directory follows.
SlidesNextDir ==
  LET next == IF index + 1 >= Len(dirs) /\ repeat THEN (index + 1) % Len(dirs)
                                                  ELSE index + 1 IN
  /\ Top.call = "slides" /\ Top.at = "moved" /\ Last
  /\ Len(dirs) > 1 /\ (index + 1 < Len(dirs) \/ repeat)
  /\ index' = next
  /\ SelectDir(dirs[next + 1],
               Append(Append(Below, Slides("arrived", Top.current)),
                      Locating(dirs[next + 1])))
  /\ UNCHANGED <<quit, playing, dirs, thumbnail, repeat, left>>

SlidesArrived ==
  /\ Top.call = "slides" /\ Top.at = "arrived"
  /\ stack' = Append(Below, Slides("sleep", FilePath(pos)))
  /\ UNCHANGED <<flags, playing, listing, pos, dirname, thumbnail, repeat, left>>

\* The same directory again.
SlidesHome ==
  /\ Top.call = "slides" /\ Top.at = "moved" /\ Last
  /\ Len(dirs) <= 1 /\ repeat
  /\ MoveTo(Home(pos))
  /\ stack' = Append(Below, Slides("sleep", FilePath(Home(pos))))
  /\ UNCHANGED <<busy, quit, playing, listing, dirname, thumbnail, repeat, left>>

\* SlidesEnd, had it forgotten mIsSlideshow.
SlidesEndOn ==
  /\ Top.call = "slides"
  /\ \/ Top.at = "sleep" /\ interrupted
     \/ Top.at = "moved" /\ Last /\ ~repeat
        /\ (Len(dirs) > 1 => index + 1 >= Len(dirs))
  /\ index' = IF Top.at = "moved" /\ Len(dirs) > 1 THEN index + 1 ELSE index
  /\ stack' = Below
  /\ Unbusy
  /\ fullscreen' = (fullscreen /\ isPause)
  /\ UNCHANGED <<quit, isSlideshow, isPause, dirs, pos, dirname, thumbnail,
                 repeat, left>>

\* Interrupted, or the last picture of all: the index is left behind the list.
SlidesEnd ==
  /\ Top.call = "slides"
  /\ \/ Top.at = "sleep" /\ interrupted
     \/ Top.at = "moved" /\ Last /\ ~repeat
        /\ (Len(dirs) > 1 => index + 1 >= Len(dirs))
  /\ index' = IF Top.at = "moved" /\ Len(dirs) > 1 THEN index + 1 ELSE index
  /\ stack' = Below
  /\ Unbusy
  /\ IF interrupted /\ quit THEN UNCHANGED <<fullscreen, isSlideshow>>
     ELSE fullscreen' = (fullscreen /\ isPause) /\ isSlideshow' = FALSE
  /\ UNCHANGED <<quit, isPause, dirs, pos, dirname, thumbnail, repeat, left>>

-----------------------------------------------------------------------------
(* kuID_SLIDESHOW.                                                         *)

\* The directory to play is shown first, if another one is.  An index behind
\* the list reads past its end.
SlideshowStart(then) ==
  IF dirs = <<>> /\ pos.file = 0
  THEN UNCHANGED <<stack, busy, interrupted, listing, pos, dirname>>
  ELSE LET list == IF dirs = <<>> THEN <<pos.dir>> ELSE dirs
           k    == IF dirs = <<>> THEN 0 ELSE index
           next == Append(stack, Starting(then))
       IN  /\ dirs' = list /\ index' = k
           /\ IF k >= Len(list)
              THEN /\ stack' = <<Crashed>>
                   /\ UNCHANGED <<busy, interrupted, pos, dirname>>
              ELSE IF list[k + 1] # pos.dir
              THEN SelectDir(list[k + 1], Append(next, Locating(list[k + 1])))
              ELSE stack' = next /\ UNCHANGED <<busy, interrupted, pos, dirname>>

\* What a traverse command does once it has paused the slideshow.
Then(frames, then) ==
  stack' = IF then = "next" THEN Append(frames, [call |-> "next"]) ELSE frames

\* A slideshow that runs is paused in fullscreen, otherwise interrupted.
SlideshowPause ==
  /\ Top.call = "start" /\ isSlideshow
  /\ interrupted' = TRUE
  /\ isPause' = IF fullscreen THEN TRUE ELSE isPause
  /\ Then(Below, Top.then)
  /\ UNCHANGED <<busy, quit, isSlideshow, fullscreen, listing, pos, dirname,
                 thumbnail, repeat, left>>

\* Otherwise it begins, in fullscreen and with the picture loaded again, or
\* continues: PlaySlideshow.
SlideshowPlay ==
  /\ Top.call = "start" /\ ~isSlideshow
  /\ IF fullscreen THEN UNCHANGED interrupted ELSE Load(pos.file)
  /\ isSlideshow' = TRUE /\ isPause' = FALSE /\ fullscreen' = TRUE
  /\ busy' = TRUE
  /\ stack' = Append(Below, Slides("sleep", FilePath(pos)))
  /\ UNCHANGED <<quit, listing, pos, dirname, thumbnail, repeat, left>>

\* The user is asked for the interval before fullscreen is entered, unless by
\* the command line (mIsDoingCmd), and cancels.
SlideshowCanceled ==
  /\ Top.call = "start" /\ ~isSlideshow /\ ~fullscreen
  /\ \A i \in In("start") : stack[i].then # "command"
  /\ stack' = Below
  /\ UNCHANGED <<flags, playing, listing, pos, dirname, thumbnail, repeat, left>>

TraverseGo ==
  /\ Top.call = "next"
  /\ stack' = Below
  /\ MoveTo(Next1(pos))
  /\ UNCHANGED <<busy, quit, playing, listing, dirname, thumbnail, repeat, left>>

Go ==
  /\ stack # <<>> /\ Top # Crashed
  /\ \/ ThumbsGo \/ LocateGo
     \/ SlidesNext \/ SlidesOn \/ SlidesNextDir \/ SlidesArrived \/ SlidesHome
     \/ SlidesEnd
     \/ SlideshowPause \/ SlideshowPlay \/ SlideshowCanceled \/ TraverseGo

-----------------------------------------------------------------------------
(* The user's commands: at rest, or in the Yield() of the newest call.     *)

Yielding ==
  stack # <<>> => \/ Top.call = "thumbs"
                  \/ Top.call = "slides" /\ Top.at # "arrived"

Commanding == left > 0 /\ ~quit /\ Yielding /\ left' = left - 1

\* kuID_SLIDESHOW.
Slideshow ==
  /\ Commanding
  /\ SlideshowStart("stop")
  /\ UNCHANGED <<quit, playing, thumbnail, repeat>>

\* DoActionCmd(slideshow|once|dir...), when kuView starts.
SlideshowCmd(list) ==
  /\ Commanding /\ left = MaxCommands
  /\ dirs' = list
  /\ repeat' \in {repeat, FALSE}
  /\ LET d == list[1]
         next == <<Starting("command")>>
     IN  IF d # pos.dir THEN SelectDir(d, Append(next, Locating(d)))
         ELSE stack' = next /\ UNCHANGED <<busy, interrupted, pos, dirname>>
  /\ UNCHANGED <<quit, playing, index, thumbnail>>

\* kuID_NEXT: a slideshow that runs is paused first.
Traverse ==
  /\ Commanding
  /\ IF isSlideshow
     THEN SlideshowStart("next")
     ELSE MoveTo(Next1(pos)) /\ UNCHANGED <<stack, busy, listing, dirname>>
  /\ UNCHANGED <<quit, playing, thumbnail, repeat>>

\* kuID_ESCAPE; in the window and without a slideshow it is Close.
Escape ==
  /\ Commanding
  /\ \/ /\ isSlideshow
        /\ interrupted' = TRUE /\ isPause' = FALSE
        /\ dirs' = <<>> /\ index' = 0
        /\ UNCHANGED fullscreen
     \/ /\ ~isSlideshow /\ fullscreen
        /\ fullscreen' = FALSE /\ isPause' = FALSE
        /\ IF isPause THEN dirs' = <<>> /\ index' = 0 ELSE UNCHANGED listing
        /\ UNCHANGED interrupted
  /\ UNCHANGED <<stack, busy, quit, isSlideshow, pos, dirname, thumbnail, repeat>>

\* FullScreen, had it not ended the pause of a slideshow that still runs.
FullScreenPaused ==
  /\ Commanding /\ pos.file # 0
  /\ IF isSlideshow
     THEN interrupted' = TRUE /\ UNCHANGED <<fullscreen, isPause, listing>>
     ELSE fullscreen' = ~fullscreen /\ UNCHANGED <<interrupted, isPause, listing>>
  /\ UNCHANGED <<stack, busy, quit, isSlideshow, pos, dirname, thumbnail, repeat>>

\* kuID_FULLSCREEN.
FullScreen ==
  /\ Commanding /\ pos.file # 0
  /\ IF isSlideshow \/ isPause
     THEN /\ interrupted' = (interrupted \/ isSlideshow)
          /\ fullscreen' = (fullscreen /\ isSlideshow)
          /\ isPause' = FALSE
          /\ dirs' = <<>> /\ index' = 0
     ELSE fullscreen' = ~fullscreen /\ UNCHANGED <<interrupted, isPause, listing>>
  /\ UNCHANGED <<stack, busy, quit, isSlideshow, pos, dirname, thumbnail, repeat>>

\* kuID_INTERRUPT: its menu item is enabled while kuView is busy.
Interrupt ==
  /\ Commanding /\ busy
  /\ interrupted' = TRUE
  /\ UNCHANGED <<stack, busy, quit, playing, listing, pos, dirname, thumbnail,
                 repeat>>

\* In the window the user selects a file or a directory in the tree.
SelectFile(p) ==
  /\ Commanding /\ ~fullscreen /\ p.file # 0 /\ p # pos
  /\ Select(p)
  /\ UNCHANGED <<stack, busy, quit, playing, listing, dirname, thumbnail, repeat>>

SelectDirectory(d) ==
  /\ Commanding /\ ~fullscreen
  /\ SelectDir(d, stack)
  /\ UNCHANGED <<quit, playing, listing, thumbnail, repeat>>

\* kuID_THUMBNAIL shows or hides the panel, and leaves its thumbnails alone.
ToggleThumbnail ==
  /\ Commanding /\ ~fullscreen
  /\ thumbnail' = ~thumbnail
  /\ UNCHANGED <<stack, flags, playing, listing, pos, dirname, repeat>>

\* OnDropped: two files; the first one is located, and their thumbnails are
\* added, whoever is busy.
Drop(p) ==
  /\ Commanding /\ p.file # 0
  /\ Select(p)
  /\ thumbnail' = (thumbnail \/ ~fullscreen)
  /\ IF thumbnail' THEN busy' = TRUE /\ stack' = Append(stack, Thumbs(1))
                   ELSE UNCHANGED <<busy, stack>>
  /\ UNCHANGED <<quit, playing, listing, dirname, repeat>>

\* OnClose: a busy kuView is interrupted.
Close ==
  /\ Commanding
  /\ interrupted' = (interrupted \/ busy)
  /\ quit' = TRUE
  /\ UNCHANGED <<stack, busy, playing, listing, pos, dirname, thumbnail, repeat>>

Command ==
  \/ Slideshow \/ Traverse \/ Escape \/ FullScreen \/ Interrupt \/ Close
  \/ ToggleThumbnail
  \/ \E list \in Lists : SlideshowCmd(list)
  \/ \E p \in Position : SelectFile(p) \/ Drop(p)
  \/ \E d \in Dirs : SelectDirectory(d)

-----------------------------------------------------------------------------
Init ==
  /\ stack = <<>>
  /\ busy = FALSE /\ interrupted = FALSE /\ quit = FALSE
  /\ isSlideshow = FALSE /\ isPause = FALSE /\ fullscreen \in BOOLEAN
  /\ dirs = <<>> /\ index = 0
  /\ pos \in Position
  /\ dirname = "none"
  /\ thumbnail \in BOOLEAN
  /\ repeat \in BOOLEAN
  /\ left = MaxCommands

Next == Go \/ Command

Spec == Init /\ [][Next]_vars

\* A call goes on once its Yield() returns.
LiveSpec == Spec /\ WF_vars(Go)

-----------------------------------------------------------------------------
(* Properties.                                                             *)

Frame ==
  [call : {"thumbs"}, left : 0..Files]
    \cup [call : {"locate"}, dir : Dirs]
    \cup [call : {"slides"}, at : {"sleep", "moved", "arrived"},
          current : Position \cup {NoFile}]
    \cup [call : {"start"}, then : {"stop", "next", "command"}]
    \cup {[call |-> "next"], Crashed}

TypeOK ==
  /\ stack \in Seq(Frame)
  /\ {busy, interrupted, quit, isSlideshow, isPause, fullscreen, thumbnail, repeat}
       \subseteq BOOLEAN
  /\ dirs \in Seq(Dirs) /\ index \in Nat
  /\ pos \in Position
  /\ dirname \in Dirs \cup {"none"}
  /\ left \in 0..MaxCommands

\* However the commands nest, at most one slideshow plays, mIsSlideshow tells
\* whether one does, and it plays in fullscreen (kuID_SLIDESHOW, PlaySlideshow).
OneSlideshow ==
  ~quit /\ In("crashed") = {} =>
    /\ Cardinality(In("slides")) <= 1
    /\ isSlideshow <=> In("slides") # {}
    /\ isSlideshow => fullscreen

\* A slideshow that is paused waits in fullscreen, where SPACE continues it and
\* ESC leaves it: nobody leaves fullscreen and forgets the pause.
PausedInFullScreen == isPause => fullscreen

\* When every call has returned, kuView is not busy any more: otherwise the
\* thumbnails of no directory would ever be shown again (OnTreeSelChanged).
FreeAtRest == stack = <<>> /\ ~quit => ~busy

\* The calls return: without repeat, once the user gives no more commands,
\* every slideshow and every loading of thumbnails ends.
ComesToRest == <>[](repeat \/ stack = <<>> \/ stack = <<Crashed>>)
=============================================================================

------------------------------ MODULE KuLoader ------------------------------
(***************************************************************************)
(* kuLoadThread (src/src/kuLoadThread.cpp): the bitmap loader of kuView.   *)
(*                                                                         *)
(* Two threads meet here.  The loader thread runs Entry(): it takes        *)
(* tickets off mLoadQueue, loads each picture and keeps it in mBmpHash,    *)
(* with mBmpCache listing the paths in the order of their last use.  The   *)
(* UI thread calls Clear, Append, Prepend, Remove, Replace and             *)
(* GetFiBitmap at any time, with any arguments; it also closes the frame   *)
(* and stops the loader (kuFrame::OnClose, kuApp::OnExit,                  *)
(* kuApp::ClearThread).                                                    *)
(*                                                                         *)
(* Critical sections under mQueueMutex are single steps.  Those of the UI  *)
(* thread under mBmpMutex are single steps too.  The loader's two take     *)
(* several: the check unlocks on two paths of its own, and the eviction    *)
(* loop of the update runs with the mutex held.  What the code reads       *)
(* without a lock (mLoadQueue.GetCount() in Entry, mBmpHash.find() in      *)
(* Remove and Replace, mFrame and mQuit before the notification) is a step *)
(* of its own, apart from the step that acts on it.                        *)
(***************************************************************************)
EXTENDS Integers, Sequences, FiniteSets

CONSTANTS
  Paths,      \* the picture files and archive members there are
  Broken,     \* those of them FreeImage cannot decode (the load returns NULL)
  Sizes,      \* the target sizes of a load (wxSize)
  FullSize,   \* wxSize(0,0): load completely, and wxSize's default value
  Rotations,  \* the rotations asked for, in quarter turns (C++ remainders)
  Written,    \* the pictures the client may write to a file
  Given,      \* for each path, the bitmaps the client may pass to Replace
  LoadCache,  \* kuOptions::mLoadCache
  MaxQueue,   \* bound of the model: tickets waiting in mLoadQueue
  MaxEvents,  \* bound of the model: wxEVT_LOADED_EVENTs not yet handled
  NoBmp,      \* the NULL FIBITMAP*
  NoEntry,    \* what mBmpHash holds for a path that is not a key
  NoTicket,   \* Entry()'s local ticket out of its scope
  NoCall      \* the UI thread is in no call

\* What a picture file holds: the picture some file held at the start, turned.
Picture == [of : Paths, turn : 0..3]

\* A bitmap shows a picture, at the size it was loaded for: as a rough preview,
\* as a good picture, or a part of one that the user has zoomed to.
Bitmap == [of : Paths, turn : 0..3, size : Sizes, kind : {"rough", "good", "part"}]
Entry  == [size : Sizes, rotate : -3..3, bmp : Bitmap \cup {NoBmp}]

ASSUME LoaderAssumption ==
  /\ IsFiniteSet(Paths)
  /\ Broken \subseteq Paths
  /\ FullSize \in Sizes
  /\ Rotations \subseteq -3..3 /\ 0 \in Rotations
  /\ Written \subseteq Picture
  /\ Given \in [Paths -> SUBSET Bitmap]
  /\ LoadCache \in Nat \ {0}
  /\ MaxQueue \in Nat /\ MaxEvents \in Nat
  /\ NoBmp \notin Bitmap /\ NoEntry \notin Entry

VARIABLES
  queue,      \* mLoadQueue
  hash,       \* mBmpHash
  cache,      \* mBmpCache, least recently used path first
  bmpMutex,   \* holder of mBmpMutex between two steps: "free" or "loader"
  lpc,        \* where the loader thread is in Entry()
  ticket,     \* Entry()'s local ticket
  lbmp,       \* Entry()'s local bmp, from the load until it is in the hash
  apc,        \* where the UI thread is in its call
  call,       \* the arguments of that call
  abmp,       \* the UI call's local bmp, then the bitmap it returns
  events,     \* wxEVT_LOADED_EVENTs posted to the frame and not yet handled
  live,       \* bitmaps FreeImage has allocated that kuLoadThread must unload
  disk,       \* the picture in each file
  quit,       \* kuApp::mQuit
  frame,      \* "alive" until wxWidgets destroys the closed frame
  deleting,   \* wxThread::Delete() was called: TestDestroy() answers true
  waitLoader  \* kuApp::mWaitLoader

loaderVars == <<lpc, ticket, lbmp>>
callVars   == <<apc, call, abmp>>
exitVars   == <<quit, frame, deleting, waitLoader>>
vars == <<queue, hash, cache, bmpMutex, loaderVars, callVars, events, live,
          disk, exitVars>>

Ticket == [path : Paths, size : Sizes, rotate : Rotations, prior : BOOLEAN]
Call   == [path : Paths, size : Sizes, rotate : Rotations, fast : BOOLEAN,
           diff : BOOLEAN]

-----------------------------------------------------------------------------
(* The operators the actions are built from.                               *)

Listed(c, p) == \E i \in DOMAIN c : c[i] = p

\* Without, had the Remove loop been forgotten.
WithoutForgotten(c, p) == c

\* A path's place taken out of the list.  wxArrayString::Remove drops the
\* first copy and the loop after it drops any other; NoDuplicates says that
\* there is never more than one.
Without(c, p) ==
  IF Listed(c, p)
  THEN LET k == CHOOSE i \in DOMAIN c : c[i] = p
       IN  [i \in 1..Len(c) - 1 |-> IF i < k THEN c[i] ELSE c[i + 1]]
  ELSE c

\* C++ remainder: it has the sign of the dividend.
Rem4(r) == IF r >= 0 THEN r % 4 ELSE -((-r) % 4)

\* kuLoadThread::Rotate: NULL stays NULL, any other bitmap is turned.
Rotated(b, r) == IF b = NoBmp THEN NoBmp ELSE [b EXCEPT !.turn = (@ + r) % 4]

\* kuFiWrapper::GetFiBitmap: decode the file as it is on disk now.
Loaded(p, s, kind) ==
  IF p \in Broken THEN NoBmp
  ELSE [of |-> disk[p].of, turn |-> disk[p].turn, size |-> s, kind |-> kind]

Count(b) == IF b = NoBmp THEN 0 ELSE 1

Has(p) == hash[p] # NoEntry
Holds(p, s) == Has(p) /\ hash[p].size = s

\* Freed, had the Unload been forgotten.
FreedForgotten(p) == 0

\* Bitmaps unloaded when p leaves the hash.
Freed(p) == IF Has(p) THEN Count(hash[p].bmp) ELSE 0

\* EraseBmpHash, had it left the path in mBmpCache.
EraseBmpHashOnly(p) ==
  /\ hash' = [hash EXCEPT ![p] = NoEntry]
  /\ UNCHANGED cache

\* EraseBmpHash: nothing at all when p is not a key.
EraseBmpHash(p) ==
  /\ hash' = [hash EXCEPT ![p] = NoEntry]
  /\ cache' = IF Has(p) THEN Without(cache, p) ELSE cache

\* AddBmpHash: an old entry is erased first, so its place in the list moves.
AddBmpHash(p, value) ==
  /\ hash' = [hash EXCEPT ![p] = value]
  /\ LET rest == IF Has(p) THEN Without(cache, p) ELSE cache
     IN  cache' = IF Listed(rest, p) THEN rest ELSE Append(rest, p)

-----------------------------------------------------------------------------
(* The loader thread: kuLoadThread::Entry().                               *)

\* Undefined behaviour ends the program, the UI thread with it.
Crash == lpc' = "crashed" /\ apc' = "crashed"

\* while(!TestDestroy()) if(mLoadQueue.GetCount()): the count is read without
\* mQueueMutex.  An empty queue is a Sleep(200), which changes nothing.
EntryTop ==
  /\ lpc = "top"
  /\ \/ deleting /\ lpc' = "clear"
     \/ ~deleting /\ queue # <<>> /\ lpc' = "pop"
  /\ UNCHANGED <<queue, hash, cache, bmpMutex, ticket, lbmp, callVars, events,
                 live, disk, exitVars>>

\* EntryPop, had it removed the ticket without taking it.
EntryPopUnread ==
  /\ lpc = "pop" /\ queue # <<>>
  /\ queue' = Tail(queue)
  /\ lpc' = "check"
  /\ UNCHANGED <<hash, cache, bmpMutex, ticket, lbmp, callVars, events, live, disk,
                 exitVars>>

\* ticket = mLoadQueue[0]; RemoveAt(0), under mQueueMutex.
EntryPop ==
  /\ lpc = "pop" /\ queue # <<>>
  /\ ticket' = Head(queue)
  /\ queue' = Tail(queue)
  /\ lpc' = "check"
  /\ UNCHANGED <<hash, cache, bmpMutex, lbmp, callVars, events, live, disk,
                 exitVars>>

\* The same on a queue Clear() has emptied since the count was read: element 0
\* is read past the end (undefined behaviour).  A null array ends the program;
\* memory of an array that was once filled still reads as some ticket.
EntryPopEmpty ==
  /\ lpc = "pop" /\ queue = <<>>
  /\ \/ Crash /\ UNCHANGED ticket
     \/ lpc' = "check" /\ ticket' \in Ticket /\ UNCHANGED apc
  /\ UNCHANGED <<queue, hash, cache, bmpMutex, lbmp, call, abmp, events, live,
                 disk, exitVars>>

\* mBmpMutex is locked for the check.
EntryCheck ==
  /\ lpc = "check" /\ bmpMutex = "free"
  /\ bmpMutex' = "loader"
  /\ lpc' = "checked"
  /\ UNCHANGED <<queue, hash, cache, ticket, lbmp, callVars, events, live, disk,
                 exitVars>>

\* EntryHit, had it gone on without Unlock().
EntryHitLocked ==
  /\ lpc = "checked" /\ Holds(ticket.path, ticket.size)
  /\ lpc' = "top" /\ ticket' = NoTicket
  /\ UNCHANGED <<queue, hash, cache, bmpMutex, lbmp, callVars, events, live, disk,
                 exitVars>>

\* A bitmap of the ticket's size is already there: unlock and continue.
EntryHit ==
  /\ lpc = "checked" /\ Holds(ticket.path, ticket.size)
  /\ bmpMutex' = "free"
  /\ lpc' = "top" /\ ticket' = NoTicket
  /\ UNCHANGED <<queue, hash, cache, lbmp, callVars, events, live, disk, exitVars>>

\* There is none, or one of another size, which is erased: unlock and load.
EntryMiss ==
  /\ lpc = "checked" /\ ~Holds(ticket.path, ticket.size)
  /\ EraseBmpHash(ticket.path)
  /\ live' = live - Freed(ticket.path)
  /\ bmpMutex' = "free"
  /\ lpc' = "load"
  /\ UNCHANGED <<queue, ticket, lbmp, callVars, events, disk, exitVars>>

\* GetFiBitmap and Rotate, without any lock.
EntryLoad ==
  /\ lpc = "load"
  /\ lbmp' = Rotated(Loaded(ticket.path, ticket.size, "good"), ticket.rotate)
  /\ live' = live + Count(lbmp')
  /\ lpc' = "lock"
  /\ UNCHANGED <<queue, hash, cache, bmpMutex, ticket, callVars, events, disk,
                 exitVars>>

EntryLock ==
  /\ lpc = "lock" /\ bmpMutex = "free"
  /\ bmpMutex' = "loader"
  /\ lpc' = "evict"
  /\ UNCHANGED <<queue, hash, cache, ticket, lbmp, callVars, events, live, disk,
                 exitVars>>

\* One round of while(mBmpCache.GetCount() >= mLoadCache) EraseBmpHash(mBmpCache[0]).
EntryEvict ==
  /\ lpc = "evict" /\ Len(cache) >= LoadCache
  /\ EraseBmpHash(Head(cache))
  /\ live' = live - Freed(Head(cache))
  /\ UNCHANGED <<queue, bmpMutex, loaderVars, callVars, events, disk, exitVars>>

\* The loop ends: AddBmpHash and unlock.
EntryAdd ==
  /\ lpc = "evict" /\ Len(cache) < LoadCache
  /\ AddBmpHash(ticket.path, [size |-> ticket.size, rotate |-> ticket.rotate,
                              bmp |-> lbmp])
  /\ live' = live - Freed(ticket.path)
  /\ lbmp' = NoBmp
  /\ bmpMutex' = "free"
  /\ lpc' = "notify"
  /\ UNCHANGED <<queue, ticket, callVars, events, disk, exitVars>>

\* if(mFrame && !mQuit): mFrame is never reset, so mQuit decides.
EntryNotify ==
  /\ lpc = "notify"
  /\ \/ ~quit /\ lpc' = "post" /\ UNCHANGED ticket
     \/ quit /\ lpc' = "top" /\ ticket' = NoTicket
  /\ UNCHANGED <<queue, hash, cache, bmpMutex, lbmp, callVars, events,
                 live, disk, exitVars>>

\* mFrame->GetEventHandler()->AddPendingEvent(event).  On a destroyed frame it
\* is undefined behaviour: the program ends, or the event reaches nobody.
EntryPost ==
  /\ lpc = "post"
  /\ \/ /\ frame = "alive" /\ Len(events) < MaxEvents
        /\ events' = Append(events, ticket.path)
        /\ lpc' = "top" /\ UNCHANGED apc
     \/ frame = "destroyed" /\ Crash /\ UNCHANGED events
     \/ frame = "destroyed" /\ lpc' = "top" /\ UNCHANGED <<apc, events>>
  /\ ticket' = NoTicket
  /\ UNCHANGED <<queue, hash, cache, bmpMutex, lbmp, call, abmp, live, disk,
                 exitVars>>

\* ClearBmpHash unloads the bitmaps of the paths mBmpCache lists and empties
\* both containers; with an empty hash it returns at once.
ClearBmpHash ==
  /\ lpc = "clear" /\ bmpMutex = "free"
  /\ hash' = [p \in Paths |-> NoEntry]
  /\ cache' = IF \E p \in Paths : Has(p) THEN <<>> ELSE cache
  /\ live' = live - Cardinality({p \in Paths : Listed(cache, p) /\ Has(p)
                                                /\ hash[p].bmp # NoBmp})
  /\ lpc' = "cleared"
  /\ UNCHANGED <<queue, bmpMutex, ticket, lbmp, callVars, events, disk, exitVars>>

\* EntryExit, had the reset of mWaitLoader been forgotten.
EntryExitSilent ==
  /\ lpc = "cleared"
  /\ lpc' = "done"
  /\ UNCHANGED <<queue, hash, cache, bmpMutex, ticket, lbmp, callVars, events,
                 live, disk, exitVars>>

\* mWaitLoader = false; return NULL.
EntryExit ==
  /\ lpc = "cleared"
  /\ waitLoader' = FALSE
  /\ lpc' = "done"
  /\ UNCHANGED <<queue, hash, cache, bmpMutex, ticket, lbmp, callVars, events,
                 live, disk, quit, frame, deleting>>

LoaderStep ==
  \/ EntryTop \/ EntryPop \/ EntryPopEmpty \/ EntryCheck \/ EntryHit \/ EntryMiss
  \/ EntryLoad \/ EntryLock \/ EntryEvict \/ EntryAdd \/ EntryNotify \/ EntryPost
  \/ ClearBmpHash \/ EntryExit

-----------------------------------------------------------------------------
(* The UI thread: the methods of kuLoadThread it calls.                    *)

\* No call is under way and there still is a window to make one.
MayCall == apc = "ready" /\ frame = "alive"

\* Clear(prior): drop all tickets, or all but the Prior ones.  Prior tickets
\* are at the front (PriorFirst), so those that stay are a prefix.
Clear(prior) ==
  /\ MayCall
  /\ \E n \in 0..Len(queue) :
       /\ \A i \in 1..Len(queue) : (prior /\ queue[i].prior) <=> i <= n
       /\ queue' = SubSeq(queue, 1, n)
  /\ UNCHANGED <<hash, cache, bmpMutex, loaderVars, callVars, events, live,
                 disk, exitVars>>

NewTicket(p, s, r, prior) == [path |-> p, size |-> s, rotate |-> r, prior |-> prior]

\* Append, had it inserted at the front like Prepend.
AppendTicketFront(p, s, r) ==
  /\ MayCall /\ Len(queue) < MaxQueue
  /\ queue' = <<NewTicket(p, s, r, FALSE)>> \o queue
  /\ UNCHANGED <<hash, cache, bmpMutex, loaderVars, callVars, events, live,
                 disk, exitVars>>

\* Append: a prefetch, at the end.
AppendTicket(p, s, r) ==
  /\ MayCall /\ Len(queue) < MaxQueue
  /\ queue' = Append(queue, NewTicket(p, s, r, FALSE))
  /\ UNCHANGED <<hash, cache, bmpMutex, loaderVars, callVars, events, live,
                 disk, exitVars>>

\* Prepend: a picture the user is waiting for, at the front.
PrependTicket(p, s, r) ==
  /\ MayCall /\ Len(queue) < MaxQueue
  /\ queue' = <<NewTicket(p, s, r, TRUE)>> \o queue
  /\ UNCHANGED <<hash, cache, bmpMutex, loaderVars, callVars, events, live,
                 disk, exitVars>>

NewCall(p, s, r, fast, diff) ==
  [path |-> p, size |-> s, rotate |-> r, fast |-> fast, diff |-> diff]

\* The loader is erasing an entry, or evicting and adding.
TableChanging ==
  \/ lpc = "checked" /\ Has(ticket.path) /\ ~Holds(ticket.path, ticket.size)
  \/ lpc = "evict"

\* mBmpHash.find() without mBmpMutex.  While the loader is changing the table
\* (undefined behaviour) a key can be missed, and the key that is being added can
\* be seen early.
FindUnlocked(p) ==
  {Has(p)} \cup (IF TableChanging THEN {FALSE} ELSE {})
           \cup (IF lpc = "evict" /\ p = ticket.path THEN {TRUE} ELSE {})

\* Remove and Replace begin alike: return unless p is found.
Remove(p) ==
  /\ MayCall
  /\ \E found \in FindUnlocked(p) :
       IF found THEN apc' = "remove" /\ call' = NewCall(p, FullSize, 0, FALSE, FALSE)
                ELSE UNCHANGED <<apc, call>>
  /\ UNCHANGED <<queue, hash, cache, bmpMutex, loaderVars, abmp, events, live,
                 disk, exitVars>>

RemoveErase ==
  /\ apc = "remove" /\ bmpMutex = "free"
  /\ EraseBmpHash(call.path)
  /\ live' = live - Freed(call.path)
  /\ apc' = "ready" /\ call' = NoCall
  /\ UNCHANGED <<queue, bmpMutex, loaderVars, abmp, events, disk, exitVars>>

\* Replace(p, b, diff, r); the clone of b is accounted for in ReplaceStore.
Replace(p, b, diff, r) ==
  /\ MayCall
  /\ \E found \in FindUnlocked(p) :
       IF found THEN /\ apc' = "replace"
                     /\ call' = NewCall(p, FullSize, r, FALSE, diff)
                     /\ abmp' = b
                ELSE UNCHANGED callVars
  /\ UNCHANGED <<queue, hash, cache, bmpMutex, loaderVars, events, live, disk,
                 exitVars>>

\* mBmpHash[filename]: operator[] makes a value-initialised entry when the
\* loader has evicted the path since it was found.
DefaultEntry == [size |-> FullSize, rotate |-> 0, bmp |-> NoBmp]

ReplaceStore ==
  /\ apc = "replace" /\ bmpMutex = "free"
  /\ LET old == IF Has(call.path) THEN hash[call.path] ELSE DefaultEntry
     IN  hash' = [hash EXCEPT ![call.path] =
                    [size   |-> old.size,
                     rotate |-> IF call.diff THEN Rem4(old.rotate + call.rotate)
                                ELSE call.rotate,
                     bmp    |-> abmp]]
  /\ live' = live - Freed(call.path) + Count(abmp)
  /\ abmp' = NoBmp
  /\ apc' = "ready" /\ call' = NoCall
  /\ UNCHANGED <<queue, cache, bmpMutex, loaderVars, events, disk, exitVars>>

\* GetFiBitmap(p, isurl, s, r, fast) is called.
GetFiBitmap(p, s, r, fast) ==
  /\ MayCall
  /\ fast => Len(queue) < MaxQueue
  /\ call' = NewCall(p, s, r, fast, FALSE)
  /\ apc' = "check"
  /\ UNCHANGED <<queue, hash, cache, bmpMutex, loaderVars, abmp, events, live,
                 disk, exitVars>>

\* GetHit, had it not recorded the rotation the bitmap has now.
GetHitUnrecorded ==
  /\ apc = "check" /\ bmpMutex = "free"
  /\ Holds(call.path, call.size)
  /\ LET e == hash[call.path]
         b == Rotated(e.bmp, call.rotate - e.rotate)
     IN  /\ hash' = [hash EXCEPT ![call.path].bmp = b]
         /\ abmp' = b
         /\ live' = live + Count(b)
  /\ cache' = Append(Without(cache, call.path), call.path)
  /\ apc' = "return"
  /\ UNCHANGED <<queue, bmpMutex, loaderVars, call, events, disk, exitVars>>

\* A hit, one critical section: turn the cached bitmap in place to the rotation
\* asked for, list the path as the most recently used, hand out a clone.
GetHit ==
  /\ apc = "check" /\ bmpMutex = "free"
  /\ Holds(call.path, call.size)
  /\ LET e     == hash[call.path]
         rdiff == call.rotate - e.rotate
         b     == Rotated(e.bmp, rdiff)
         turns == e.bmp # NoBmp /\ rdiff % 4 # 0
     IN  /\ hash' = [hash EXCEPT ![call.path] =
                       [e EXCEPT !.bmp = b,
                                 !.rotate = IF turns THEN Rem4(@ + rdiff) ELSE @]]
         /\ abmp' = b
         /\ live' = live + Count(b)
  /\ cache' = Append(Without(cache, call.path), call.path)
  /\ apc' = "return"
  /\ UNCHANGED <<queue, bmpMutex, loaderVars, call, events, disk, exitVars>>

\* A miss: an entry of another size is erased and the mutex released.
GetMiss ==
  /\ apc = "check" /\ bmpMutex = "free"
  /\ ~Holds(call.path, call.size)
  /\ EraseBmpHash(call.path)
  /\ live' = live - Freed(call.path)
  /\ apc' = IF call.fast THEN "prepend" ELSE "load"
  /\ UNCHANGED <<queue, bmpMutex, loaderVars, call, abmp, events, disk, exitVars>>

\* if(fast) Prepend(...): the loader will make the good bitmap.
GetPrepend ==
  /\ apc = "prepend"
  /\ queue' = <<NewTicket(call.path, call.size, call.rotate, TRUE)>> \o queue
  /\ apc' = "load"
  /\ UNCHANGED <<hash, cache, bmpMutex, loaderVars, call, abmp, events, live,
                 disk, exitVars>>

\* What the UI thread loads by itself.
LoadedByCall == Loaded(call.path, call.size, IF call.fast THEN "rough" ELSE "good")

\* GetLoad, had if(fast) not kept the preview out of the hash.
GetLoadCached ==
  /\ apc = "load"
  /\ abmp' = Rotated(LoadedByCall, call.rotate)
  /\ live' = live + Count(abmp')
  /\ apc' = "add"
  /\ UNCHANGED <<queue, hash, cache, bmpMutex, loaderVars, call, events, disk,
                 exitVars>>

\* The UI thread loads by itself: a rough preview, or the good bitmap.
GetLoad ==
  /\ apc = "load"
  /\ abmp' = Rotated(LoadedByCall, call.rotate)
  /\ live' = live + Count(abmp')
  /\ apc' = IF call.fast THEN "return" ELSE "add"
  /\ UNCHANGED <<queue, hash, cache, bmpMutex, loaderVars, call, events, disk,
                 exitVars>>

\* The good bitmap goes into the hash, without evicting, and a clone is returned.
GetAdd ==
  /\ apc = "add" /\ bmpMutex = "free"
  /\ AddBmpHash(call.path, [size |-> call.size, rotate |-> call.rotate, bmp |-> abmp])
  /\ live' = live - Freed(call.path) + Count(abmp)
  /\ apc' = "return"
  /\ UNCHANGED <<queue, bmpMutex, loaderVars, call, abmp, events, disk, exitVars>>

\* The caller takes the bitmap over; unloading it is now the caller's duty.
GetReturn ==
  /\ apc = "return"
  /\ live' = live - Count(abmp)
  /\ abmp' = NoBmp
  /\ apc' = "ready" /\ call' = NoCall
  /\ UNCHANGED <<queue, hash, cache, bmpMutex, loaderVars, events, disk,
                 exitVars>>

CallStep ==
  RemoveErase \/ ReplaceStore \/ GetHit \/ GetMiss \/ GetPrepend \/ GetLoad
  \/ GetAdd \/ GetReturn

-----------------------------------------------------------------------------
(* The UI thread: events, files and the end of the program.                *)

\* The frame's event loop takes the oldest wxEVT_LOADED_EVENT (kuFrame::OnLoaded).
TakeEvent ==
  /\ MayCall /\ events # <<>>
  /\ events' = Tail(events)
  /\ UNCHANGED <<queue, hash, cache, bmpMutex, loaderVars, callVars, live, disk,
                 exitVars>>

\* A picture file changes on disk: a lossless rotation, a save, another program.
WriteFile(p, picture) ==
  /\ MayCall
  /\ disk' = [disk EXCEPT ![p] = picture]
  /\ UNCHANGED <<queue, hash, cache, bmpMutex, loaderVars, callVars, events,
                 live, exitVars>>

\* kuFrame::OnClose sets mQuit; event.Skip() lets wxWidgets destroy the frame.
OnClose ==
  /\ MayCall /\ ~quit
  /\ quit' = TRUE
  /\ UNCHANGED <<queue, hash, cache, bmpMutex, loaderVars, callVars, events,
                 live, disk, frame, deleting, waitLoader>>

\* wxWidgets deletes the closed frame in idle time, with its pending events.
DestroyFrame ==
  /\ MayCall /\ quit
  /\ frame' = "destroyed"
  /\ events' = <<>>
  /\ UNCHANGED <<queue, hash, cache, bmpMutex, loaderVars, callVars, live, disk,
                 quit, deleting, waitLoader>>

\* ClearThread, had it not raised mWaitLoader.
ClearThreadNoFlag ==
  /\ apc = "ready" /\ frame = "destroyed"
  /\ apc' = "delete"
  /\ UNCHANGED <<queue, hash, cache, bmpMutex, loaderVars, call, abmp, events,
                 live, disk, exitVars>>

\* kuApp::ClearThread, called by OnExit: the flag, then Delete, then the wait.
ClearThread ==
  /\ apc = "ready" /\ frame = "destroyed"
  /\ waitLoader' = TRUE
  /\ apc' = "delete"
  /\ UNCHANGED <<queue, hash, cache, bmpMutex, loaderVars, call, abmp, events,
                 live, disk, quit, frame, deleting>>

ClearThreadDelete ==
  /\ apc = "delete"
  /\ deleting' = TRUE
  /\ apc' = "wait"
  /\ UNCHANGED <<queue, hash, cache, bmpMutex, loaderVars, call, abmp, events,
                 live, disk, quit, frame, waitLoader>>

ClearThreadWaited ==
  /\ apc = "wait" /\ ~waitLoader
  /\ apc' = "exited"
  /\ UNCHANGED <<queue, hash, cache, bmpMutex, loaderVars, call, abmp, events,
                 live, disk, exitVars>>

ExitStep == DestroyFrame \/ ClearThread \/ ClearThreadDelete \/ ClearThreadWaited

-----------------------------------------------------------------------------
Init ==
  /\ queue = <<>>
  /\ hash = [p \in Paths |-> NoEntry]
  /\ cache = <<>>
  /\ bmpMutex = "free"
  /\ lpc = "top"
  /\ ticket = NoTicket
  /\ lbmp = NoBmp
  /\ apc = "ready"
  /\ call = NoCall
  /\ abmp = NoBmp
  /\ events = <<>>
  /\ live = 0
  /\ disk = [p \in Paths |-> [of |-> p, turn |-> 0]]
  /\ quit = FALSE
  /\ frame = "alive"
  /\ deleting = FALSE
  /\ waitLoader = FALSE

\* The client: any call of the UI thread, with any arguments.
ClientStep ==
  \/ \E prior \in BOOLEAN : Clear(prior)
  \/ \E p \in Paths, s \in Sizes, r \in Rotations :
       \/ AppendTicket(p, s, r)
       \/ PrependTicket(p, s, r)
       \/ \E fast \in BOOLEAN : GetFiBitmap(p, s, r, fast)
  \/ \E p \in Paths : Remove(p)
  \/ \E p \in Paths, r \in Rotations, diff \in BOOLEAN :
       \E b \in Given[p] : Replace(p, b, diff, r)
  \/ TakeEvent
  \/ \E p \in Paths, picture \in Written : WriteFile(p, picture)
  \/ OnClose

\* The program has ended, or undefined behaviour has ended it.
Ended == apc \in {"exited", "crashed"}

Terminated == Ended /\ UNCHANGED vars

Next == LoaderStep \/ CallStep \/ ClientStep \/ ExitStep \/ Terminated

Spec == Init /\ [][Next]_vars

\* Both threads are scheduled.  The loader and the code of a call never stop
\* by themselves, the event loop handles what is posted, and the frame that was
\* closed is destroyed and the loader stopped: wxWidgets deletes it when the event
\* loop is next idle, and between two calls it is idle again and again (strong
\* fairness).  Nothing obliges the user to act.
Fairness ==
  /\ WF_vars(LoaderStep)
  /\ WF_vars(CallStep)
  /\ WF_vars(TakeEvent)
  /\ SF_vars(ExitStep)

FairSpec == Spec /\ Fairness

-----------------------------------------------------------------------------
(* Properties.                                                             *)

\* Every variable stays in its type; the locals of a thread are in scope exactly
\* where the code uses them.
TypeOK ==
  /\ queue \in Seq(Ticket)
  /\ hash \in [Paths -> Entry \cup {NoEntry}]
  /\ cache \in Seq(Paths)
  /\ bmpMutex \in {"free", "loader"}
  /\ lpc \in {"top", "pop", "check", "checked", "load", "lock", "evict", "notify",
              "post", "clear", "cleared", "done", "crashed"}
  /\ ticket \in Ticket \cup {NoTicket}
  /\ lpc \in {"check", "checked", "load", "lock", "evict", "notify", "post"}
       => ticket \in Ticket
  /\ lbmp \in Bitmap \cup {NoBmp}
  /\ apc \in {"ready", "check", "prepend", "load", "add", "return", "remove",
              "replace", "delete", "wait", "exited", "crashed"}
  /\ call \in Call \cup {NoCall}
  /\ apc \in {"check", "prepend", "load", "add", "return", "remove", "replace"}
       => call \in Call
  /\ abmp \in Bitmap \cup {NoBmp}
  /\ events \in Seq(Paths)
  /\ live \in Int
  /\ disk \in [Paths -> Picture]
  /\ quit \in BOOLEAN /\ frame \in {"alive", "destroyed"}
  /\ deleting \in BOOLEAN /\ waitLoader \in BOOLEAN

\* Where the loader holds mBmpMutex between two steps; a part of IInv.
MutexOwned == bmpMutex = "loader" <=> lpc \in {"checked", "evict"}

\* Every path mBmpCache lists is a key of mBmpHash.  The eviction loop erases
\* mBmpCache[0] until the list is short enough, and EraseBmpHash does nothing for
\* a path that is not a key: one such path at the front and the loader spins for
\* ever with mBmpMutex held.
CacheInHash == \A i \in DOMAIN cache : Has(cache[i])

\* No path is listed twice: one eviction frees one place and no listed path
\* outlives its bitmap.
NoDuplicates == \A i, j \in DOMAIN cache : cache[i] = cache[j] => i = j

\* The bitmaps kuLoadThread has allocated and not unloaded are exactly those it
\* can still reach: one per hash entry, the loader's and the call's.  A bitmap
\* unloaded twice, leaked, or handed out without a clone breaks the count.  (At
\* its end ClearBmpHash unloads the listed entries only; an entry that Replace
\* has made for a path evicted meanwhile is not one of them.)
Conservation ==
  lpc \notin {"cleared", "done", "crashed"} =>
    live = Cardinality({p \in Paths : Has(p) /\ hash[p].bmp # NoBmp})
           + Count(lbmp) + (IF apc = "replace" THEN 0 ELSE Count(abmp))

\* The path's entry is a rough preview.
PreviewAt(p) == Has(p) /\ hash[p].bmp # NoBmp /\ hash[p].bmp.kind = "rough"

\* No load, hit or eviction puts a rough preview into mBmpHash, or moves one to another
\* path: in the cache it would be served as the good picture from then on.  Only what
\* the client itself passes to Replace can be one.
NoPreviewCached ==
  [][ReplaceStore \/ \A p \in Paths : PreviewAt(p)' => PreviewAt(p)]_vars

\* Prior tickets are the front of the queue: a picture on screen is served before
\* any prefetch, and a Clear() keeps it.
PriorFirst ==
  \A i, j \in DOMAIN queue : i < j /\ queue[j].prior => queue[i].prior

\* kuApp::OnExit goes on to Finalize() only when the loader thread is past its
\* last use of the bitmaps (ClearThread waits for it).
ExitAfterLoader == apc = "exited" => lpc = "done"

\* How the two threads agree on the end: the loader leaves its loop only when
\* Delete() was called, that happens only with mWaitLoader set, and while the UI
\* thread waits the flag stays set until the loader is done.
Handshake ==
  /\ deleting => apc \in {"wait", "exited", "crashed"}
  /\ lpc \in {"clear", "cleared", "done"} => deleting
  /\ apc = "delete" => waitLoader
  /\ apc = "wait" => waitLoader \/ lpc = "done"
  /\ ExitAfterLoader

\* "pop the first ticket" is done only while there is one: nothing empties the
\* queue between the test of its count and the pop.
PopsATicket == lpc = "pop" => queue # <<>>

\* The inductive invariant behind the safety theorems of KuLoader_proofs.
IInv ==
  /\ TypeOK
  /\ MutexOwned
  /\ CacheInHash
  /\ NoDuplicates
  /\ PriorFirst
  /\ Handshake

\* Once the frame is closed the program ends: the loader hears of it, leaves its
\* loop from wherever it is and releases ClearThread's wait.
ShutdownCompletes == quit ~> Ended

\* Every call the UI thread makes comes back: mBmpMutex is released on each path
\* through Entry(), the "continue" included, so the window never freezes on the loader.
CallReturns == (apc \in {"check", "prepend", "load", "add", "return", "remove", "replace"})
                 ~> (apc = "ready" \/ Ended)

\* The eviction loop, which runs with mBmpMutex held, ends.
UpdateEnds == (lpc = "evict") ~> (lpc = "notify")
=============================================================================

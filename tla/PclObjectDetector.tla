------------------------- MODULE PclObjectDetector -------------------------
(***************************************************************************)
(* src/Segmentation/PclObjectDetector.cpp: Detect, called by the server's  *)
(* thread for every depth frame, fills a point cloud unless the worker is  *)
(* busy with the last one; the worker waits on m_condWorkerIsFree and      *)
(* turns the cloud into a vector of object bounds; GetObjectVector copies  *)
(* that vector.  m_mutexMonitorWorker is locked by the worker alone, so it *)
(* is no variable here: nobody ever waits for it.                          *)
(***************************************************************************)
EXTENDS Naturals

CONSTANT MaxFrames            \* bound: depth frames given to Detect

ASSUME MaxFramesAssumption == MaxFrames \in Nat

VARIABLES
  fpc,      \* the thread that calls Detect and, in the end, the destructor
  wpc,      \* the worker thread
  rpc,      \* a thread that calls GetObjectVector
  fill,     \* owner of m_mutexFill
  stop,     \* m_stopWorker
  cloud,    \* frame m_seg.m_cloud was made from, 0 while it is null or partial
  found,    \* FindClusters found clusters
  objects,  \* frame m_objects describes, 0 while it is empty or partial
  filled,   \* history: how many frames became a cloud
  seen,     \* history: the frame of the last detection
  got       \* history: what the last GetObjectVector returned

vars == <<fpc, wpc, rpc, fill, stop, cloud, found, objects, filled, seen, got>>

Init ==
  /\ fpc = "idle" /\ wpc = "test" /\ rpc = "idle" /\ fill = "none"
  /\ stop = FALSE /\ found = FALSE
  /\ cloud = 0 /\ objects = 0 /\ filled = 0 /\ seen = 0 /\ got = 0

-----------------------------------------------------------------------------
(* Detect and the destructor                                               *)

TryLock_NoLock ==
  /\ fpc = "idle" /\ filled < MaxFrames
  /\ fpc' = "fill" /\ fill' = "feeder" /\ cloud' = 0
  /\ UNCHANGED <<wpc, rpc, stop, found, objects, filled, seen, got>>

\* try_lock: a frame that comes while the mutex is held is dropped.
\* CreatePointCloud begins with a new, empty cloud.
TryLock ==
  /\ fpc = "idle" /\ fill = "none" /\ filled < MaxFrames
  /\ fpc' = "fill" /\ fill' = "feeder" /\ cloud' = 0
  /\ UNCHANGED <<wpc, rpc, stop, found, objects, filled, seen, got>>

CreatePointCloud ==
  /\ fpc = "fill"
  /\ filled' = filled + 1 /\ cloud' = filled'
  /\ fpc' = "unlock"
  /\ UNCHANGED <<wpc, rpc, fill, stop, found, objects, seen, got>>

UnlockFill ==
  /\ fpc = "unlock"
  /\ fill' = "none" /\ fpc' = "notify"
  /\ UNCHANGED <<wpc, rpc, stop, cloud, found, objects, filled, seen, got>>

NotifyOne_Forgotten ==
  /\ fpc = "notify"
  /\ fpc' = "idle"
  /\ UNCHANGED <<wpc, rpc, fill, stop, cloud, found, objects, filled, seen, got>>

\* notify_one without holding m_mutexMonitorWorker.
NotifyOne ==
  /\ fpc = "notify"
  /\ wpc' = IF wpc = "waiting" THEN "woken" ELSE wpc
  /\ fpc' = "idle"
  /\ UNCHANGED <<rpc, fill, stop, cloud, found, objects, filled, seen, got>>

\* ~PclObjectDetector sets the flag and joins; it notifies nobody.
Destroy ==
  /\ fpc = "idle" /\ rpc = "idle"
  /\ stop' = TRUE /\ fpc' = "join"
  /\ UNCHANGED <<wpc, rpc, fill, cloud, found, objects, filled, seen, got>>

Join ==
  /\ fpc = "join" /\ wpc = "done"
  /\ fpc' = "destroyed"
  /\ UNCHANGED <<wpc, rpc, fill, stop, cloud, found, objects, filled, seen, got>>

-----------------------------------------------------------------------------
(* DetectionWorker                                                         *)

TestStop_Ignored ==
  /\ wpc = "test"
  /\ wpc' = "wait"
  /\ UNCHANGED <<fpc, rpc, fill, stop, cloud, found, objects, filled, seen, got>>

TestStop ==
  /\ wpc = "test"
  /\ wpc' = IF stop THEN "done" ELSE "wait"
  /\ UNCHANGED <<fpc, rpc, fill, stop, cloud, found, objects, filled, seen, got>>

Wait ==
  /\ wpc = "wait"
  /\ wpc' = "waiting"
  /\ UNCHANGED <<fpc, rpc, fill, stop, cloud, found, objects, filled, seen, got>>

\* The wait has no predicate: a spurious wakeup is a detection as well.
SpuriousWakeup ==
  /\ wpc = "waiting"
  /\ wpc' = "woken"
  /\ UNCHANGED <<fpc, rpc, fill, stop, cloud, found, objects, filled, seen, got>>

LockFill ==
  /\ wpc = "woken" /\ fill = "none"
  /\ fill' = "worker" /\ wpc' = "detect"
  /\ UNCHANGED <<fpc, rpc, stop, cloud, found, objects, filled, seen, got>>

\* Nothing is found in a null cloud (before the first frame).  When nothing is
\* found m_objects keeps what it held.
FindClusters ==
  /\ wpc = "detect"
  /\ found' \in {FALSE, cloud # 0}
  /\ seen' = cloud
  /\ objects' = IF found' THEN 0 ELSE objects
  /\ wpc' = IF found' THEN "publish" ELSE "unlock"
  /\ UNCHANGED <<fpc, rpc, fill, stop, cloud, filled, got>>

PublishObjects_OffByOne ==
  /\ wpc = "publish"
  /\ objects' = cloud + 1 /\ wpc' = "unlock"
  /\ UNCHANGED <<fpc, rpc, fill, stop, cloud, found, filled, seen, got>>

PublishObjects ==
  /\ wpc = "publish"
  /\ objects' = cloud /\ wpc' = "unlock"
  /\ UNCHANGED <<fpc, rpc, fill, stop, cloud, found, filled, seen, got>>

WorkerUnlock ==
  /\ wpc = "unlock"
  /\ fill' = "none" /\ wpc' = "test"
  /\ UNCHANGED <<fpc, rpc, stop, cloud, found, objects, filled, seen, got>>

-----------------------------------------------------------------------------
(* GetObjectVector (public; its one caller, Dump, is commented out)        *)

LockObjects_NoLock ==
  /\ rpc = "idle" /\ fpc \notin {"join", "destroyed"}
  /\ rpc' = "copy"
  /\ UNCHANGED <<fpc, wpc, fill, stop, cloud, found, objects, filled, seen, got>>

LockObjects ==
  /\ rpc = "idle" /\ fill = "none" /\ fpc \notin {"join", "destroyed"}
  /\ fill' = "reader" /\ rpc' = "copy"
  /\ UNCHANGED <<fpc, wpc, stop, cloud, found, objects, filled, seen, got>>

CopyObjects ==
  /\ rpc = "copy"
  /\ got' = objects
  /\ fill' = "none" /\ rpc' = "idle"
  /\ UNCHANGED <<fpc, wpc, stop, cloud, found, objects, filled, seen>>

-----------------------------------------------------------------------------
FeederContinues == CreatePointCloud \/ UnlockFill \/ NotifyOne \/ Join
WorkerStep == TestStop \/ Wait \/ LockFill \/ FindClusters \/ PublishObjects
              \/ WorkerUnlock

Next == TryLock \/ FeederContinues \/ Destroy \/ WorkerStep \/ SpuriousWakeup
        \/ LockObjects \/ CopyObjects

\* Threads are scheduled; a thread that waits for m_mutexFill gets it in the end
\* (SF).  Nothing forces a call of Detect, of GetObjectVector, of the destructor
\* or a spurious wakeup.
Fairness == /\ WF_vars(FeederContinues) /\ WF_vars(WorkerStep)
            /\ SF_vars(LockFill) /\ WF_vars(CopyObjects)

Spec     == Init /\ [][Next]_vars
FairSpec == Spec /\ Fairness

-----------------------------------------------------------------------------
TypeOK ==
  /\ fpc \in {"idle", "fill", "unlock", "notify", "join", "destroyed"}
  /\ wpc \in {"test", "wait", "waiting", "woken", "detect", "publish", "unlock",
              "done"}
  /\ rpc \in {"idle", "copy"}
  /\ fill \in {"none", "feeder", "worker", "reader"}
  /\ stop \in BOOLEAN /\ found \in BOOLEAN
  /\ filled \in 0..MaxFrames
  /\ cloud \in 0..filled /\ objects \in 0..filled
  /\ seen \in 0..filled /\ got \in 0..filled

\* The worker sees whole clouds only, the newest one each time: a frame that
\* Detect has filled is never passed over for an older one (cpp:17-21, 41-43).
DetectsNewestFrame == wpc \in {"publish", "unlock"} => seen = cloud /\ cloud = filled

\* Successive calls of GetObjectVector never go back to older objects, nor see a
\* vector that is being rebuilt (cpp:29-32, 48-68).
ResultsNeverGoBack == [][got' >= got]_vars

\* A frame that was filled while the worker waited is detected, or a newer one
\* in its place (cpp:22, 40-43).
FrameForWaiterIsDetected ==
  \A n \in 1..MaxFrames :
    (fpc = "notify" /\ filled = n /\ wpc = "waiting") ~> seen >= n

\* The destructor returns when the worker was busy at the time the flag was set:
\* the worker tests the flag before it waits again (cpp:12-13, 38).
BusyWorkerIsJoined ==
  (fpc = "join" /\ wpc \notin {"wait", "waiting"}) ~> fpc = "destroyed"
=============================================================================

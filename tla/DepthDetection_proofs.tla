------------------------ MODULE DepthDetection_proofs -----------------------
(***************************************************************************)
(* The two models that a depth frame meets on the server, which share no   *)
(* variable.  VideoFrame: its data path for every word size, frame size    *)
(* and sensor value.  PclObjectDetector: safety for any number of frames;  *)
(* m_mutexFill alone orders the three threads, so a detection is always of *)
(* the newest frame and what GetObjectVector returns only moves forward.   *)
(***************************************************************************)
EXTENDS VideoFrame, PclObjectDetector, TLAPS

-----------------------------------------------------------------------------
(* VideoFrame: the operators                                               *)

\* Arithmetic modulo Word is exact for what fits.
LEMMA NoWrap ==
  ASSUME NEW a \in Nat, a < Word
  PROVE  a % Word = a
  BY ConstantsAssumption

\* A frame whose size fits a word is encoded with its true length.
LEMMA TrueSize ==
  ASSUME NEW w \in Nat, NEW h \in Nat, NEW n \in Nat, w * h * n + HeaderSize < Word
  PROVE  Size(w, h, n) = w * h * n + HeaderSize
<1> DEFINE size == w * h * n
<1>1. size \in Nat
  OBVIOUS
<1> HIDE DEF size
<1>2. size < Word /\ size + HeaderSize \in Nat /\ size + HeaderSize < Word
  BY <1>1, ConstantsAssumption DEF HeaderSize, size
<1>3. size % Word = size /\ (size + HeaderSize) % Word = size + HeaderSize
  BY <1>1, <1>2, NoWrap
<1>4. QED
  BY <1>3 DEF Size, FrameSize, size

\* What is encoded is decoded; only a length of at most StructSize is refused.
LEMMA RoundTrip ==
  ASSUME NEW w, NEW h, NEW n, NEW data
  PROVE  /\ IsOK(Encode(w, h, n, data)) <=> Size(w, h, n) > StructSize
         /\ Decode(Encode(w, h, n, data)) =
              [width |-> w, height |-> h, nchannels |-> n, data |-> data]
  BY DEF Encode, Decode, IsOK

\* The distances the two kinds of pixel stand for.
MswMm(s)      == (s \div 8) % 4096
FreenectMm(d) == 257 * ((255 * d) \div 2047)

\* Distances survive the two bytes of a pixel, modulo 4096 mm.
LEMMA MswDistance ==
  ASSUME NEW s \in Nat
  PROVE  CloudZ(MswPixel(s)) = MswMm(s) /\ MswMm(s) \in Nat
<1> DEFINE mm == s \div 8
<1>1. mm \in Nat
  OBVIOUS
<1>2. s \div 2048 = mm \div 256
  OBVIOUS
<1> HIDE DEF mm
<1>3. (mm % 256) + 256 * ((mm \div 256) % 16) = mm % 4096
  BY <1>1
<1>4. CloudZ(MswPixel(s)) = (mm % 256) + 256 * ((mm \div 256) % 16)
  BY <1>2 DEF CloudZ, MswPixel, mm
<1>5. QED
  BY <1>1, <1>3, <1>4 DEF mm, MswMm

\* Both kinds of pixel are bytes.
LEMMA MswBytes ==
  ASSUME NEW s \in Nat
  PROVE  Bytes(MswPixel(s))
<1>1. (s \div 8) % 256 \in 0..255 /\ (s \div 2048) % 16 \in 0..255
  OBVIOUS
<1>2. QED
  BY <1>1 DEF MswPixel, Bytes

LEMMA FreenectBytes ==
  ASSUME NEW d \in FreenectValues
  PROVE  Bytes(FreenectPixel(d))
<1>1. (255 * d) \div 2047 \in 0..255
  BY DEF FreenectValues
<1>2. QED
  BY <1>1 DEF FreenectPixel, Bytes

\* What the freenect grabber sends is 257 times a shade of grey ...
LEMMA FreenectDistance ==
  ASSUME NEW d \in FreenectValues
  PROVE  CloudZ(FreenectPixel(d)) = FreenectMm(d) /\ FreenectMm(d) \in Nat
  BY DEF CloudZ, FreenectPixel, FreenectMm, FreenectValues

\* ... and is clustered for raw values 9 to 64 only.
LEMMA FreenectClustered ==
  ASSUME NEW d \in FreenectValues
  PROVE  Clustered(CloudZ(FreenectPixel(d))) <=> d \in 9..64
  BY DEF CloudZ, FreenectPixel, Clustered, FreenectValues

\* A picture of the freenect grabber orders distances as the sensor does
\* (KinectGrabberFreenect.cpp:112, PclSegmentation.cpp:58).
THEOREM FreenectOrdered ==
  ASSUME NEW d \in FreenectValues, NEW e \in FreenectValues, d <= e
  PROVE  CloudZ(FreenectPixel(d)) <= CloudZ(FreenectPixel(e))
<1>1. (255 * d) \div 2047 <= (255 * e) \div 2047
  BY DEF FreenectValues
<1>2. FreenectMm(d) <= FreenectMm(e)
  BY <1>1 DEF FreenectMm, FreenectValues
<1>3. QED
  BY <1>2, FreenectDistance

-----------------------------------------------------------------------------
(* VideoFrame: the picture on its way                                      *)

\* Each value the picture has taken on comes from the one before it.
PathInv ==
  /\ at # "sensor" => pixel = SensorPixel
  /\ at \in {"link", "cloud", "refused"} => message = Encode(width, height, 3, pixel)
  /\ at = "cloud" => frame = Decode(message) /\ z = CloudZ(pixel)
  /\ at = "refused" => ~IsOK(message)

PictureInv == PictureTypeOK /\ PathInv

\* Sensor values of the two grabbers.
LEMMA RawValues ==
  ASSUME PictureTypeOK
  PROVE  \/ backend = "msw" /\ raw \in Nat
         \/ backend = "freenect" /\ raw \in FreenectValues
<1>1. raw \in Raws(backend) /\ (backend = "freenect" \/ backend = "msw")
  BY Zenon DEF PictureTypeOK
<1>2. Raws("freenect") = FreenectValues /\ Raws("msw") = MswValues
  BY DEF Raws
<1>3. MswValues \subseteq Nat
  BY ConstantsAssumption DEF MswValues
<1>4. QED
  BY <1>1, <1>2, <1>3, Zenon

\* Bytes and distance of the pixel of any sensor value.
LEMMA Pixels ==
  ASSUME PictureTypeOK
  PROVE  Bytes(SensorPixel) /\ CloudZ(SensorPixel) \in Nat
<1>1. CASE backend = "msw" /\ raw \in Nat
  <2>1. SensorPixel = MswPixel(raw)
    BY <1>1, Zenon DEF SensorPixel
  <2>2. QED
    BY <1>1, <2>1, MswDistance, MswBytes, Zenon
<1>2. CASE backend = "freenect" /\ raw \in FreenectValues
  <2>1. "freenect" # "msw"
    OBVIOUS
  <2>2. SensorPixel = FreenectPixel(raw)
    BY <1>2, <2>1, Zenon DEF SensorPixel
  <2>3. QED
    BY <1>2, <2>2, FreenectDistance, FreenectBytes, Zenon
<1>3. QED
  BY <1>1, <1>2, RawValues, Zenon

LEMMA ZeroBytes == Bytes(<<0, 0, 0>>)
  BY DEF Bytes

LEMMA PictureInitInv == PictureInit => PictureInv
<1> SUFFICES ASSUME PictureInit PROVE PictureInv
  OBVIOUS
<1>1. PictureTypeOK
  BY ZeroBytes DEF PictureInit, PictureTypeOK
<1>2. PathInv
  BY DEF PictureInit, PathInv
<1>3. QED
  BY <1>1, <1>2 DEF PictureInv

LEMMA PictureStepInv == PictureInv /\ [PictureNext]_pictureVars => PictureInv'
<1> SUFFICES ASSUME PictureInv, [PictureNext]_pictureVars PROVE PictureInv'
  OBVIOUS
<1>1. CASE Grab
  <2>1. pixel' = SensorPixel /\ SensorPixel' = SensorPixel
    BY <1>1 DEF Grab, SensorPixel
  <2>2. Bytes(pixel')
    BY <2>1, Pixels DEF PictureInv
  <2>3. PictureTypeOK'
    BY <1>1, <2>2 DEF Grab, PictureInv, PictureTypeOK
  <2>4. PathInv'
    BY <1>1, <2>1 DEF Grab, PathInv
  <2>5. QED
    BY <2>3, <2>4 DEF PictureInv
<1>2. CASE Send
  <2>1. SensorPixel' = SensorPixel
    BY <1>2 DEF Send, SensorPixel
  <2>2. PictureTypeOK'
    BY <1>2 DEF Send, PictureInv, PictureTypeOK
  <2>3. PathInv'
    BY <1>2, <2>1 DEF Send, PictureInv, PathInv
  <2>4. QED
    BY <2>2, <2>3 DEF PictureInv
<1>3. CASE Process
  <2>1. SensorPixel' = SensorPixel
    BY <1>3 DEF Process, SensorPixel
  <2>2. message.data = pixel /\ pixel = SensorPixel
    BY <1>3 DEF Process, PictureInv, PathInv, Encode
  <2>3. IsOK(message) => z' = CloudZ(pixel)
    BY <1>3, <2>2 DEF Process
  <2>4. z' \in Nat
    <3>1. CASE IsOK(message)
      BY <3>1, <2>2, <2>3, Pixels DEF PictureInv
    <3>2. CASE ~IsOK(message)
      BY <1>3, <3>2 DEF Process, PictureInv, PictureTypeOK
    <3>3. QED
      BY <3>1, <3>2
  <2>5. PictureTypeOK'
    BY <1>3, <2>4 DEF Process, PictureInv, PictureTypeOK
  <2>6. PathInv'
    <3>1. message' = message /\ pixel' = pixel /\ width' = width /\ height' = height
      BY <1>3 DEF Process
    <3>2. message = Encode(width, height, 3, pixel)
      BY <1>3 DEF Process, PictureInv, PathInv
    <3>3. at' = "cloud" => frame' = Decode(message) /\ z' = CloudZ(pixel)
      BY <1>3, <2>3 DEF Process
    <3>4. at' = "refused" => ~IsOK(message)
      BY <1>3 DEF Process
    <3>5. QED
      BY <2>1, <2>2, <3>1, <3>2, <3>3, <3>4 DEF PathInv
  <2>7. QED
    BY <2>5, <2>6 DEF PictureInv
<1>4. CASE UNCHANGED pictureVars
  <2>1. SensorPixel' = SensorPixel
    BY <1>4 DEF pictureVars, SensorPixel
  <2>2. PictureTypeOK' /\ PathInv'
    BY <1>4, <2>1 DEF pictureVars, PictureInv, PictureTypeOK, PathInv
  <2>3. QED
    BY <2>2 DEF PictureInv
<1>5. QED
  BY <1>1, <1>2, <1>3, <1>4 DEF PictureNext

LEMMA PictureInvariance == PictureSpec => []PictureInv
  BY PictureInitInv, PictureStepInv, PTL DEF PictureSpec

-----------------------------------------------------------------------------
\* Every variable keeps to its type, for pictures of any size.
THEOREM PictureTypeCorrect == PictureSpec => []PictureTypeOK
<1>1. PictureInv => PictureTypeOK
  BY DEF PictureInv
<1>2. QED
  BY <1>1, PictureInvariance, PTL

\* Every frame whose size fits a word arrives as it was sent, unless it is no
\* longer than the VideoFrame object (KinectTypes.cpp:13, 19).
THEOREM EveryFrameArrives == PictureSpec => []FramesArrive
<1>1. PictureInv => FramesArrive
  <2> SUFFICES ASSUME PictureInv, width * height * 3 + HeaderSize < Word
               PROVE  /\ at = "cloud" => frame = [width |-> width, height |-> height,
                                                 nchannels |-> 3, data |-> pixel]
                      /\ at = "refused" => width * height * 3 + HeaderSize <= StructSize
    BY DEF FramesArrive
  <2>1. Size(width, height, 3) = width * height * 3 + HeaderSize
    BY TrueSize DEF PictureInv, PictureTypeOK
  <2>2. at \in {"cloud", "refused"} => message = Encode(width, height, 3, pixel)
    BY DEF PictureInv, PathInv
  <2>3. at = "cloud" => frame = [width |-> width, height |-> height,
                                 nchannels |-> 3, data |-> pixel]
    BY <2>2, RoundTrip DEF PictureInv, PathInv
  <2>4. at = "refused" => ~(Size(width, height, 3) > StructSize)
    BY <2>2, RoundTrip DEF PictureInv, PathInv
  <2>5. width * height * 3 + HeaderSize \in Nat
    BY DEF PictureInv, PictureTypeOK, HeaderSize
  <2>6. QED
    BY <2>1, <2>3, <2>4, <2>5, ConstantsAssumption
<1>2. QED
  BY <1>1, PictureInvariance, PTL

\* With the Kinect SDK the point cloud has the sensor's distance, modulo 4096 mm
\* (KinectGrabberMSW.cpp:365-366, PclSegmentation.cpp:58).
THEOREM MswDepthExact == PictureSpec => []MswDepthIsExact
<1>1. ASSUME PictureInv, at = "cloud", backend = "msw"
      PROVE  z = MswMm(raw)
  <2>1. "freenect" # "msw" /\ "cloud" # "sensor"
    OBVIOUS
  <2>2. raw \in Nat
    BY <1>1, <2>1, RawValues, Zenon DEF PictureInv
  <2>3. z = CloudZ(pixel) /\ pixel = SensorPixel
    BY <1>1, <2>1, Zenon DEF PictureInv, PathInv
  <2>4. SensorPixel = MswPixel(raw)
    BY <1>1, Zenon DEF SensorPixel
  <2>5. QED
    BY <2>2, <2>3, <2>4, MswDistance, Zenon
<1>2. PictureInv => MswDepthIsExact
  BY <1>1 DEF MswDepthIsExact, MswMm
<1>3. QED
  BY <1>2, PictureInvariance, PTL

\* With libfreenect the clustering sees the sensor's values 9 to 64 only
\* (KinectGrabberFreenect.cpp:112, PclSegmentation.cpp:58, 97).
THEOREM FreenectRangeIs == PictureSpec => []FreenectRange
<1>1. ASSUME PictureInv, at = "cloud", backend = "freenect"
      PROVE  Clustered(z) <=> raw \in 9..64
  <2>1. "freenect" # "msw" /\ "cloud" # "sensor"
    OBVIOUS
  <2>2. raw \in FreenectValues
    BY <1>1, <2>1, RawValues, Zenon DEF PictureInv
  <2>3. z = CloudZ(pixel) /\ pixel = SensorPixel
    BY <1>1, <2>1, Zenon DEF PictureInv, PathInv
  <2>4. SensorPixel = FreenectPixel(raw)
    BY <1>1, <2>1, Zenon DEF SensorPixel
  <2>5. QED
    BY <2>2, <2>3, <2>4, FreenectClustered, Zenon
<1>2. PictureInv => FreenectRange
  BY <1>1, Zenon DEF FreenectRange
<1>3. QED
  BY <1>2, PictureInvariance, PTL

\* Both cameras' values reach the detector as the two theorems say.
THEOREM DepthReachesDetector == PictureSpec => []DepthReachesCloud
<1>1. MswDepthIsExact /\ FreenectRange => DepthReachesCloud
  BY DEF DepthReachesCloud
<1>2. QED
  BY MswDepthExact, FreenectRangeIs, <1>1, PTL

-----------------------------------------------------------------------------
(* PclObjectDetector                                                       *)

USE MaxFramesAssumption

\* Each owner of m_mutexFill is in its critical section, and only there.
LockInv ==
  /\ fill = "feeder" <=> fpc \in {"fill", "unlock"}
  /\ fill = "worker" <=> wpc \in {"detect", "publish", "unlock"}
  /\ fill = "reader" <=> rpc = "copy"

\* The cloud is that of the newest frame except while Detect rebuilds it; the
\* objects are empty only before the first detection and while they are rebuilt.
CloudInv ==
  /\ IF fpc = "fill" THEN cloud = 0 /\ filled < MaxFrames ELSE cloud = filled
  /\ wpc \in {"publish", "unlock"} => seen = cloud
  /\ IF wpc = "publish" THEN objects = 0 /\ got <= cloud ELSE got <= objects

IInv == TypeOK /\ LockInv /\ CloudInv

LEMMA InitInv == Init => IInv
<1>1. Init => stop \in BOOLEAN /\ found \in BOOLEAN
  BY Zenon DEF Init
<1>2. QED
  BY <1>1 DEF Init, IInv, TypeOK, LockInv, CloudInv

LEMMA InvStep ==
  ASSUME IInv, [Next]_vars
  PROVE  IInv'
<1> USE DEF IInv, TypeOK, LockInv, CloudInv
<1>1. CASE TryLock
  BY <1>1 DEF TryLock
<1>2. CASE CreatePointCloud
  BY <1>2 DEF CreatePointCloud
<1>3. CASE UnlockFill
  BY <1>3 DEF UnlockFill
<1>4. CASE NotifyOne
  BY <1>4 DEF NotifyOne
<1>5. CASE Destroy
  BY <1>5 DEF Destroy
<1>6. CASE Join
  BY <1>6 DEF Join
<1>7. CASE TestStop
  BY <1>7 DEF TestStop
<1>8. CASE Wait
  BY <1>8 DEF Wait
<1>9. CASE SpuriousWakeup
  BY <1>9 DEF SpuriousWakeup
<1>10. CASE LockFill
  BY <1>10 DEF LockFill
<1>11. CASE FindClusters
  <2>1. found' \in BOOLEAN
    <3>1. (cloud # 0) \in BOOLEAN
      BY Zenon
    <3>2. QED
      BY <1>11, <3>1, Zenon DEF FindClusters
  <2>2. QED
    BY <1>11, <2>1 DEF FindClusters
<1>12. CASE PublishObjects
  BY <1>12 DEF PublishObjects
<1>13. CASE WorkerUnlock
  BY <1>13 DEF WorkerUnlock
<1>14. CASE LockObjects
  BY <1>14 DEF LockObjects
<1>15. CASE CopyObjects
  BY <1>15 DEF CopyObjects
<1>16. CASE UNCHANGED vars
  BY <1>16 DEF vars
<1> HIDE DEF IInv
<1>17. QED
  BY <1>1, <1>2, <1>3, <1>4, <1>5, <1>6, <1>7, <1>8, <1>9, <1>10, <1>11, <1>12,
     <1>13, <1>14, <1>15, <1>16
  DEF Next, FeederContinues, WorkerStep

\* The inductive invariant holds in every reachable state.
THEOREM Invariance == Spec => []IInv
  BY InitInv, InvStep, PTL DEF Spec

\* Every variable keeps to its type, for every number of frames.
THEOREM TypeCorrect == Spec => []TypeOK
<1>1. IInv => TypeOK
  BY DEF IInv
<1>2. QED
  BY Invariance, <1>1, PTL

\* A detection is always of the newest frame that was filled, and of all of it.
THEOREM NewestFrame == Spec => []DetectsNewestFrame
<1>1. IInv => DetectsNewestFrame
  BY DEF IInv, LockInv, CloudInv, DetectsNewestFrame
<1>2. QED
  BY Invariance, <1>1, PTL

\* What GetObjectVector returns never goes back to an older frame.
THEOREM ForwardOnly == Spec => ResultsNeverGoBack
<1>1. IInv /\ [Next]_vars => [got' >= got]_vars
  <2> SUFFICES ASSUME IInv, [Next]_vars
               PROVE  got' >= got
    OBVIOUS
  <2>1. CASE CopyObjects
    BY <2>1 DEF CopyObjects, IInv, TypeOK, LockInv, CloudInv
  <2>2. CASE ~CopyObjects
    <3>1. got' = got
      BY <2>2 DEF Next, FeederContinues, WorkerStep, TryLock, CreatePointCloud,
           UnlockFill, NotifyOne, Destroy, Join, TestStop, Wait, SpuriousWakeup,
           LockFill, FindClusters, PublishObjects, WorkerUnlock, LockObjects, vars
    <3>2. QED
      BY <3>1 DEF IInv, TypeOK
  <2>3. QED
    BY <2>1, <2>2
<1>2. QED
  BY Invariance, <1>1, PTL DEF Spec, ResultsNeverGoBack
=============================================================================

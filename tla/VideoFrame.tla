----------------------------- MODULE VideoFrame -----------------------------
(***************************************************************************)
(* What becomes of a depth picture on its way to the detector: a grabber   *)
(* turns the sensor's value into a pixel, the client puts VideoFrame's     *)
(* header before the pixels (KinectTypes.cpp), the server checks it, and   *)
(* PclSegmentation::CreatePointCloud reads a distance back.                *)
(*                                                                         *)
(* One picture goes through the steps; its pixels are all alike.  A        *)
(* message is its header, its length and the pixel; uint32 arithmetic is   *)
(* modulo Word.                                                            *)
(***************************************************************************)
EXTENDS Integers

CONSTANTS
  Word,         \* 2^32 in the code
  StructSize,   \* sizeof(VideoFrame): 32 where pointers have 64 bits
  MaxSide,      \* bound: sides of a picture
  MaxSensor     \* bound: values of the Kinect SDK's depth image, 16 bits wide

ASSUME ConstantsAssumption ==
  /\ Word \in Nat \ {0} /\ StructSize \in Nat
  /\ MaxSide \in Nat /\ MaxSensor \in Nat

VARIABLES
  at,           \* where the picture is
  backend,      \* the grabber that made it
  raw,          \* what the sensor saw
  width,        \* of the picture
  height,
  pixel,        \* three bytes of m_CurrentImage
  message,      \* what SendKinectData is given
  frame,        \* the server's m_depthFrame
  z             \* millimetres of the point, 0 for none

pictureVars == <<at, backend, raw, width, height, pixel, message, frame, z>>

-----------------------------------------------------------------------------
(* VideoFrame                                                              *)

HeaderSize == 12

FrameSize(w, h, n) == (w * h * n) % Word

Size(w, h, n) == (FrameSize(w, h, n) + HeaderSize) % Word

\* The constructor the client uses.
Encode(w, h, n, data) ==
  [width |-> w, height |-> h, nchannels |-> n, data |-> data,
   length |-> Size(w, h, n)]

\* No message, no frame.
Nothing == <<>>

IsOK_ShortHeader(packet) ==
  /\ packet.length > StructSize
  /\ packet.length = FrameSize(packet.width, packet.height, packet.nchannels)

\* The constructor the server uses: a message that is not longer than the object
\* it is to become is refused unread, and so is one of another length than its
\* header says.
IsOK(packet) ==
  /\ packet.length > StructSize
  /\ packet.length = Size(packet.width, packet.height, packet.nchannels)

\* What it makes of the others.
Decode(packet) ==
  [width |-> packet.width, height |-> packet.height,
   nchannels |-> packet.nchannels, data |-> packet.data]

-----------------------------------------------------------------------------
(* A pixel of a depth picture: three bytes                                 *)

MswPixel_WrongShift(s) == <<(s \div 8) % 256, (s \div 256) % 16, 0>>

\* KinectGrabberMSW: 13 bits of millimetres above 3 bits of player index; the
\* lowest 12 bits of the distance are kept, low byte first.
MswPixel(s) == <<(s \div 8) % 256, (s \div 2048) % 16, 0>>

FreenectPixel_Scale256(d) == LET grey == (256 * d) \div 2047 IN <<grey, grey, grey>>

\* KinectGrabberFreenect: the 11-bit value of the sensor as a shade of grey.
FreenectPixel(d) == LET grey == (255 * d) \div 2047 IN <<grey, grey, grey>>

\* CreatePointCloud takes the first two bytes for millimetres (little-endian).
CloudZ(p) == p[1] + 256 * p[2]

\* FindClusters keeps points between 0 and 2 m; no point is made for 0.
Clustered(mm) == mm > 0 /\ mm <= 2000

-----------------------------------------------------------------------------
\* What libfreenect and the Kinect SDK give for a pixel.
FreenectValues == 0..2047
MswValues      == 0..MaxSensor

Raws(b) == IF b = "freenect" THEN FreenectValues ELSE MswValues

PictureInit ==
  /\ at = "sensor" /\ backend \in {"freenect", "msw"}
  /\ raw \in Raws(backend)
  /\ width \in 1..MaxSide /\ height \in 1..MaxSide
  /\ pixel = <<0, 0, 0>>
  /\ message = Nothing /\ frame = Nothing /\ z = 0

SensorPixel == IF backend = "msw" THEN MswPixel(raw) ELSE FreenectPixel(raw)

\* The grabber fills its buffer and OnDepthFrame copies it into m_CurrentImage.
Grab ==
  /\ at = "sensor"
  /\ pixel' = SensorPixel
  /\ at' = "client"
  /\ UNCHANGED <<backend, raw, width, height, message, frame, z>>

\* OnDepthFrame wraps m_CurrentImage and gives it to SendKinectData.
Send ==
  /\ at = "client"
  /\ message' = Encode(width, height, 3, pixel)
  /\ at' = "link"
  /\ UNCHANGED <<backend, raw, width, height, pixel, frame, z>>

\* PclDataProcessor::ProcessDepthFrame: only a frame that is OK goes to Detect.
Process ==
  /\ at = "link"
  /\ IF IsOK(message)
     THEN /\ frame' = Decode(message) /\ z' = CloudZ(message.data)
          /\ at' = "cloud"
     ELSE at' = "refused" /\ UNCHANGED <<frame, z>>
  /\ UNCHANGED <<backend, raw, width, height, pixel, message>>

PictureNext == Grab \/ Send \/ Process

PictureSpec == PictureInit /\ [][PictureNext]_pictureVars

-----------------------------------------------------------------------------
Bytes(p) == \A i \in 1..3 : p[i] \in 0..255

PictureTypeOK ==
  /\ at \in {"sensor", "client", "link", "cloud", "refused"}
  /\ backend \in {"freenect", "msw"}
  /\ raw \in Raws(backend)
  /\ width \in 1..MaxSide /\ height \in 1..MaxSide
  /\ Bytes(pixel)
  /\ z \in Nat

\* What the client sends is what the server works on, provided the size fits a
\* word; only a frame as small as the VideoFrame object is refused, although it
\* is complete (KinectTypes.cpp:13, 19).
FramesArrive ==
  width * height * 3 + HeaderSize < Word =>
    /\ at = "cloud" => frame = [width |-> width, height |-> height,
                               nchannels |-> 3, data |-> pixel]
    /\ at = "refused" => width * height * 3 + HeaderSize <= StructSize

\* With the Kinect SDK the point cloud has the distance the sensor saw, whatever
\* the player index, below 4096 mm, and 4096 mm less above
\* (KinectGrabberMSW.cpp:365-366, PclSegmentation.cpp:58).
MswDepthIsExact ==
  at = "cloud" /\ backend = "msw" => z = (raw \div 8) % 4096

\* With libfreenect it has 257 times a shade of grey: of the sensor's 2048
\* values the clustering, which keeps 2 m, sees those from 9 to 64 only
\* (KinectGrabberFreenect.cpp:112, PclSegmentation.cpp:58, 97).
FreenectRange ==
  at = "cloud" /\ backend = "freenect" => (Clustered(z) <=> raw \in 9..64)

\* What the detector on the server makes of the two cameras' values.
DepthReachesCloud == MswDepthIsExact /\ FreenectRange
=============================================================================

------------------------------- MODULE Ladder -------------------------------
(***************************************************************************)
(* The plan of a transcode (internal/transcoder): which rungs of the       *)
(* ladder a source gets, the shape ffmpeg gives each, the shape the code   *)
(* believes in when it cannot measure, and the names and order of the      *)
(* files.  A source is what ffprobe reports of an upload.                  *)
(***************************************************************************)
EXTENDS Naturals, Sequences, FiniteSets

DefaultLadder ==
  { [name |-> "1080p", short |-> 1080],
    [name |-> "720p",  short |-> 720],
    [name |-> "480p",  short |-> 480],
    [name |-> "360p",  short |-> 360] }

Landscape(src) == src.width >= src.height
ShortEdge(src) == IF Landscape(src) THEN src.height ELSE src.width

\* Mutant: no output for a source below the ladder.
planWithoutFallback(src, ladder) == {r \in ladder : r.short <= ShortEdge(src)}

planRenditions(src, ladder) ==
  LET picked == {r \in ladder : r.short <= ShortEdge(src)} IN
  IF picked = {} THEN {[name |-> "source", short |-> ShortEdge(src)]} ELSE picked

-----------------------------------------------------------------------------
(* Shapes.  The filter pins the edge that is shorter in the source, and    *)
(* leaves the other to ffmpeg: "-2" is the nearest even number that keeps  *)
(* the shape (av_rescale rounds half up).                                  *)

NearestEven(n, d) == 2 * ((n + d) \div (2 * d))

\* Mutant: the height is pinned, whatever the orientation.
pinHeight(src, short) ==
  [width |-> NearestEven(src.width * short, src.height), height |-> short]

scaleFilter(src, short) ==
  IF Landscape(src)
    THEN [width |-> NearestEven(src.width * short, src.height), height |-> short]
    ELSE [width |-> short, height |-> NearestEven(src.height * short, src.width)]

\* math.Round of n / d, and one more when that is odd.
roundEven(n, d) ==
  LET whole == (2 * n + d) \div (2 * d) IN
  IF whole % 2 = 0 THEN whole ELSE whole + 1

\* Mutant: believed of every source as of a landscape one.
actualLandscape(src, short) ==
  [width |-> roundEven(src.width * short, src.height), height |-> short]

\* What is recorded of a variant that ffprobe could not measure.
actualDimensions(src, short) ==
  IF Landscape(src)
    THEN [width |-> roundEven(src.width * short, src.height), height |-> short]
    ELSE [width |-> short, height |-> roundEven(src.height * short, src.width)]

\* x264 encodes 4:2:0 video in even sizes only.  The HLS command asks for
\* 4:2:0; the MP4 command keeps what the upload has, and that is the rule.
Encodable(size) ==
  /\ size.width % 2 = 0 /\ size.height % 2 = 0
  /\ size.width > 0 /\ size.height > 0

\* ffmpeg needs something to write, and an encoder that accepts each size.
Renders(src) ==
  /\ planRenditions(src, DefaultLadder) # {}
  /\ \A r \in planRenditions(src, DefaultLadder) :
       Encodable(scaleFilter(src, r.short))

-----------------------------------------------------------------------------
(* Files.  A key is a name at the top of the job's folder, and the place   *)
(* by name of a file in that directory; 0 is for the top-level file itself. *)

hlsDir(name) == IF name = "source" THEN "native" ELSE name

Names(src) == {r.name : r \in planRenditions(src, DefaultLadder)}

\* The directories TranscodeHLS makes.
VariantDirs(src) == {hlsDir(n) : n \in Names(src)}
AudioDir(src)    == IF src.audio THEN {"audio"} ELSE {}
Dirs(src)        == VariantDirs(src) \cup AudioDir(src)

\* writeMasterPlaylist: what master.m3u8 refers to.
Links(src) == {hlsDir(n) : n \in Names(src)} \cup AudioDir(src)

VariantFiles == 1..3   \* init.mp4, playlist.m3u8, the segment
InDir(d)     == {<<d, i>> : i \in VariantFiles}
Master       == <<"master.m3u8", 0>>

Tree(src) == {Master} \cup UNION {InDir(d) : d \in Dirs(src)}

Mp4(name)     == <<name, 0>>
Mp4Files(src) == {Mp4(n) : n \in Names(src)}

FilesOf(kind, src) == IF kind = "hls" THEN Tree(src) ELSE Mp4Files(src)

\* Mutant: the files of a directory before the directories in it.
MasterFirst == <<"master.m3u8", "1080p", "360p", "480p", "720p", "audio", "native">>

\* filepath.Walk goes through a directory by name, as the bucket's listing
\* does: "audio" and the rungs come before "master.m3u8", "native" after it.
WalkOrder == <<"1080p", "360p", "480p", "720p", "audio", "master.m3u8", "native">>

\* The MP4 renditions, in the order of the ladder.
LadderOrder == <<"1080p", "720p", "480p", "360p", "source">>

\* Where a key comes in its order, and the first n of a set of keys.
PlaceIn(order, name) == CHOOSE i \in DOMAIN order : order[i] = name
Place(kind, key) == 4 * PlaceIn(IF kind = "hls" THEN WalkOrder ELSE LadderOrder, key[1]) + key[2]

Earlier(kind, keys, key) == {k \in keys : Place(kind, k) < Place(kind, key)}
FirstOf(kind, keys, n)   == {k \in keys : Cardinality(Earlier(kind, keys, k)) < n}

-----------------------------------------------------------------------------
(* What a plan promises (transcoder.go:16-19, 100-102; hls.go:336-339).    *)

LongEdge(src) == IF Landscape(src) THEN src.width ELSE src.height

\* The short edge is that of the rung, and not above the source's; the long
\* one keeps the shape to the pixel that makes it even.
ShapeKept(src, r) ==
  LET size  == scaleFilter(src, r.short)
      short == IF Landscape(src) THEN size.height ELSE size.width
      long  == IF Landscape(src) THEN size.width ELSE size.height IN
  /\ short = r.short /\ short <= ShortEdge(src)
  /\ long * ShortEdge(src) <= short * LongEdge(src) + ShortEdge(src)
  /\ short * LongEdge(src) <= long * ShortEdge(src) + ShortEdge(src)

SameSize(a, b) == a.width = b.width /\ a.height = b.height

\* Two sizes of even numbers that are the same or next to each other.
Near(a, b) ==
  /\ a.width <= b.width + 2 /\ b.width <= a.width + 2
  /\ a.height = b.height \/ (a.width = b.width /\ a.height <= b.height + 2 /\ b.height <= a.height + 2)

=============================================================================

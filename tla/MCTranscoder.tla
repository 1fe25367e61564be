---------------------------- MODULE MCTranscoder ----------------------------
(***************************************************************************)
(* Pictures of up to nine by seven pixels, in every usual sampling, with   *)
(* and without partial iMCUs at their edges, every transformation and      *)
(* option; and two pictures with every list of markers that matters.       *)
(***************************************************************************)
EXTENDS Transcoder

CONSTANTS MCSizes, MCCrops

Component(h, v, q) == [h |-> h, v |-> v, q |-> q]
Color(h, v) == <<Component(h, v, 0), Component(1, 1, 1), Component(1, 1, 1)>>

Picture(space, comps, w, h, reused, markers) ==
  [space |-> space, comps |-> comps, w |-> w, h |-> h,
   reused |-> reused, markers |-> markers]

Exif(parses, fits, size) ==
  [kind |-> "Exif", parses |-> parses, fits |-> fits,
   sub |-> SubSeq(<<[tag |-> "ExifImageWidth", value |-> 5],
                    [tag |-> "ColorSpace", value |-> 1],
                    [tag |-> "ExifImageHeight", value |-> 7]>>, 1, size)]

MCSizesAll == {<<8, 4>>, <<4, 8>>, <<9, 7>>, <<5, 6>>, <<3, 3>>}

MCSources ==
  LET Pictures(comps, space) ==
        {Picture(space, comps, size[1], size[2], FALSE, <<>>) : size \in MCSizes}
  IN UNION {Pictures(Color(h, v), "YCbCr") : h \in 1 .. 2, v \in 1 .. 2}
       \cup Pictures(<<Component(2, 2, 0)>>, "GRAY")
       \cup Pictures(<<Component(1, 1, 0), Component(2, 1, 1), Component(1, 2, 1)>>, "YCbCr")
       \cup Pictures(Color(1, 1), "RGB")
       \cup {Picture("YCbCr", Color(1, 1), 4, 4, TRUE, <<>>)}
       \cup {Picture(space, Color(1, 1), 5, 7, FALSE, markers) :
               space \in {"YCbCr", "RGB"},
               markers \in {<<Marker("JFIF"), Marker("COM"), Marker("Adobe"), Exif(TRUE, 3, 3)>>,
                            <<Exif(TRUE, 3, 3), Marker("JFIF"), Marker("COM")>>,
                            <<Exif(TRUE, 1, 3), Marker("Adobe")>>,
                            <<Exif(TRUE, 1, 1)>>, <<Exif(FALSE, 3, 3)>>}}

\* "+1+1", "5x3-1+2", "4fx4f+2-0", "x2f+3", "1x1+8+6", "6+0+9", "x-1"
MCCropsAll ==
  {<<>>, <<Plus, 1, Plus, 1>>, <<5, X, 3, Minus, 1, Plus, 2>>,
   <<4, F, X, 4, F, Plus, 2, Minus, 0>>, <<X, 2, F, Plus, 3>>,
   <<3, X, 1, Plus, 4, Plus, 4>>, <<1, X, 1, Plus, 8, Plus, 6>>, <<X, Minus, 1>>}

Transformations ==
  {"NONE", "FLIP_H", "FLIP_V", "TRANSPOSE", "TRANSVERSE", "ROT_90", "ROT_180", "ROT_270"}

MCOptions ==
  [transform : Transformations, perfect : BOOLEAN, trim : BOOLEAN, gray : BOOLEAN,
   crop : MCCrops, copy : {"ALL"}]
  \cup [transform : {"ROT_90"}, perfect : {FALSE}, trim : {TRUE}, gray : BOOLEAN,
        crop : {<<>>}, copy : {"NONE", "COMMENTS"}]
=============================================================================

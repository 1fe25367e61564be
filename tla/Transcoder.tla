----------------------------- MODULE Transcoder -----------------------------
(***************************************************************************)
(* jpegtran: one JPEG file is read as coefficients, transformed and        *)
(* written as another (jpegtran.c, jctrans.c, transupp.c). The order of    *)
(* the calls is the one main() keeps to: the output parameters are fixed   *)
(* before the blocks are moved, so what the one step decides the other     *)
(* must do.                                                                *)
(*                                                                         *)
(*   src    the file that is read: its size, its color space, the sampling *)
(*          factors and the quantization table of each component, whether  *)
(*          a table was defined again between scans, its extra markers     *)
(*   opt    the command line                                               *)
(*   info   jpeg_transform_info, after jtransform_request_workspace()      *)
(*   coefs, work   the arrays of the source and of the workspace           *)
(*   dst    the parameters of the file that is written                     *)
(*   out    the markers written so far                                     *)
(***************************************************************************)
EXTENDS Transforms

CONSTANTS Sources, Options

ComponentType == [h : 1 .. 4, v : 1 .. 4, q : 0 .. 1]
TagType == [tag : {"ExifImageWidth", "ExifImageHeight", "ColorSpace"}, value : Nat]
MarkerType == [kind : {"JFIF", "Adobe", "Exif", "COM"}, parses : BOOLEAN,
               fits : Nat, sub : Seq(TagType)]

\* The markers of certain kinds, in their order.
OfKind(markers, kinds) ==
  LET found[n \in 0 .. Len(markers)] ==
        IF n = 0 THEN <<>>
        ELSE IF markers[n].kind \in kinds THEN Append(found[n - 1], markers[n])
        ELSE found[n - 1]
  IN found[Len(markers)]

ASSUME SourcesAssumption ==
  /\ Sources \subseteq [space : {"YCbCr", "RGB", "GRAY"}, comps : Seq(ComponentType),
                         w : Nat \ {0}, h : Nat \ {0}, reused : BOOLEAN,
                         markers : Seq(MarkerType)]
  /\ \A s \in Sources :
       /\ s.comps # <<>>
       /\ \A k \in DOMAIN s.markers : s.markers[k].fits <= Len(s.markers[k].sub)
ASSUME OptionsAssumption ==
  Options \subseteq [transform : {"NONE", "FLIP_H", "FLIP_V", "TRANSPOSE", "TRANSVERSE",
                                  "ROT_90", "ROT_180", "ROT_270"},
                     perfect : BOOLEAN, trim : BOOLEAN, gray : BOOLEAN, crop : Seq(Int),
                     copy : {"ALL", "COMMENTS", "NONE"}]

VARIABLES phase, src, opt, info, coefs, work, dst, out

vars == <<phase, src, opt, info, coefs, work, dst, out>>

jdiv_round_up(a, b) == (a + b - 1) \div b
jround_up(a, b) == jdiv_round_up(a, b) * b

Most(comps, Factor(_)) ==
  CHOOSE m \in {Factor(comps[ci]) : ci \in DOMAIN comps} :
    \A ci \in DOMAIN comps : Factor(comps[ci]) <= m
max_h(comps) == Most(comps, LAMBDA c : c.h)
max_v(comps) == Most(comps, LAMBDA c : c.v)

(***************************************************************************)
(* The file that is read. Every coefficient of its DC is a number of its   *)
(* own, and so is every sample it decodes to. The arrays are padded to     *)
(* whole iMCUs.                                                            *)
(***************************************************************************)
SourceArray(s, ci) ==
  LET c == s.comps[ci]
      rows == jround_up(jdiv_round_up(s.h * c.v, max_v(s.comps) * DCTSIZE), c.v)
      cols == jround_up(jdiv_round_up(s.w * c.h, max_h(s.comps) * DCTSIZE), c.h)
  IN [y \in 0 .. rows - 1 |-> [x \in 0 .. cols - 1 |->
        Block(LAMBDA i, j : IF i + j = 0 THEN 20 * (100 * ci + 10 * y + x) ELSE 1)]]

QuantTable == [q \in 0 .. 1 |->
  Block(LAMBDA i, j : IF i + j = 0 THEN 1 + q ELSE 2 * i + j)]

(***************************************************************************)
(* The segment with the camera's data: parses stands for its byte order    *)
(* mark and the search for the second directory, sub is that directory,    *)
(* fits the number of its entries inside of the segment.                   *)
(***************************************************************************)
adjust_exif_parameters(m, w, h) ==
  IF ~ m.parses \/ Len(m.sub) < 2 THEN m
  ELSE [m EXCEPT !.sub = [k \in DOMAIN m.sub |->
         IF k > m.fits THEN m.sub[k]
         ELSE CASE m.sub[k].tag = "ExifImageWidth"  -> [m.sub[k] EXCEPT !.value = w]
                [] m.sub[k].tag = "ExifImageHeight" -> [m.sub[k] EXCEPT !.value = h]
                [] OTHER -> m.sub[k]]]

Marker(kind) == [kind |-> kind, parses |-> FALSE, fits |-> 0, sub |-> <<>>]

\* jcopy_markers_setup(): what is kept of the markers of the source.
Saved(markers, option) ==
  CASE option = "ALL"      -> markers
    [] option = "COMMENTS" -> OfKind(markers, {"COM"})
    [] option = "NONE"     -> <<>>

(***************************************************************************)
Init ==
  /\ phase = "start"
  /\ src \in Sources
  /\ opt \in Options
  /\ coefs = [ci \in DOMAIN src.comps |-> SourceArray(src, ci)]
  /\ info = <<>> /\ work = <<>> /\ dst = <<>> /\ out = <<>>

\* parse_switches(); an unusable crop specification ends the program.
ParseSwitches ==
  /\ phase = "start"
  /\ info' = jtransform_parse_crop_spec(opt.crop)
  /\ phase' = IF info'.ok THEN "header" ELSE "usage"
  /\ UNCHANGED <<src, opt, coefs, work, dst, out>>

ReadHeader ==
  /\ phase = "header"
  /\ src' = [src EXCEPT !.markers = Saved(@, opt.copy)]
  /\ phase' = "request"
  /\ UNCHANGED <<opt, info, coefs, work, dst, out>>

num_components ==
  IF opt.gray /\ src.space = "YCbCr" /\ Len(src.comps) = 3 THEN 1 ELSE Len(src.comps)

\* The axes of the output: the uncropped size, and that of an iMCU.
transpose_it == opt.transform \in Transposing
full_width == IF transpose_it THEN src.h ELSE src.w
full_height == IF transpose_it THEN src.w ELSE src.h
mcu_width == IF num_components = 1 THEN DCTSIZE ELSE max_h(src.comps) * DCTSIZE
mcu_height == IF num_components = 1 THEN DCTSIZE ELSE max_v(src.comps) * DCTSIZE
iMCU_sample_width == IF transpose_it THEN mcu_height ELSE mcu_width
iMCU_sample_height == IF transpose_it THEN mcu_width ELSE mcu_height

Region(full, imcu, extent, offset) ==
  IF opt.crop # <<>> THEN Cropped(full, imcu, extent, offset) ELSE Uncropped(full)
OutputSize(region, mirrors, full, imcu) ==
  IF opt.trim /\ opt.transform \in mirrors
  THEN Trimmed(region.size, region.offset, full, imcu) ELSE region.size

\* The workspace array of a component; one component alone is not sampled.
Workspace(ci, w, h) ==
  LET c == src.comps[ci]
      h_samp == IF num_components = 1 THEN 1 ELSE IF transpose_it THEN c.v ELSE c.h
      v_samp == IF num_components = 1 THEN 1 ELSE IF transpose_it THEN c.h ELSE c.v
  IN [y \in 0 .. (jdiv_round_up(h, iMCU_sample_height) * v_samp) - 1 |->
       [x \in 0 .. (jdiv_round_up(w, iMCU_sample_width) * h_samp) - 1 |-> Garbage]]

RequestWorkspace ==
  LET x == Region(full_width, iMCU_sample_width, info.w, info.x)
      y == Region(full_height, iMCU_sample_height, info.h, info.y)
      w == OutputSize(x, MirrorsRight, full_width, iMCU_sample_width)
      h == OutputSize(y, MirrorsBottom, full_height, iMCU_sample_height)
  IN /\ phase = "request"
     /\ IF opt.perfect /\ ~ jtransform_perfect_transform(src.w, src.h, mcu_width,
                                                         mcu_height, opt.transform)
        THEN phase' = "imperfect" /\ UNCHANGED <<info, work>>
        ELSE IF ~ (x.ok /\ y.ok)
        THEN phase' = "bad crop" /\ UNCHANGED <<info, work>>
        ELSE /\ phase' = "adjust"
             /\ info' = [num |-> num_components, w |-> w, h |-> h,
                         x |-> x.offset, y |-> y.offset, region |-> [x |-> x, y |-> y]]
             /\ work' = IF NeedsWorkspace(opt.transform, x.offset, y.offset)
                        THEN [ci \in 1 .. num_components |-> Workspace(ci, w, h)]
                        ELSE <<>>
     /\ UNCHANGED <<src, opt, coefs, dst, out>>

(***************************************************************************)
(* jpeg_copy_critical_parameters() and jtransform_adjust_parameters().     *)
(***************************************************************************)
TransposedParameters(d) ==                    \* transpose_critical_parameters()
  [d EXCEPT !.comps = [ci \in DOMAIN d.comps |->
                         [d.comps[ci] EXCEPT !.h = d.comps[ci].v, !.v = d.comps[ci].h]],
            !.quant = [q \in DOMAIN d.quant |-> Transposed(d.quant[q])]]

grayscale ==
  /\ \/ src.space = "YCbCr" /\ Len(src.comps) = 3
     \/ src.space = "GRAY" /\ Len(src.comps) = 1
  /\ src.comps[1].h = max_h(src.comps) /\ src.comps[1].v = max_v(src.comps)

Parameters ==
  [w |-> info.w, h |-> info.h, quant |-> QuantTable,
   comps |-> IF opt.gray \/ info.num = 1 THEN <<[h |-> 1, v |-> 1, q |-> src.comps[1].q]>>
             ELSE src.comps,
   jfif |-> opt.gray \/ src.space # "RGB", adobe |-> ~ opt.gray /\ src.space = "RGB"]

LeadingExif == src.markers # <<>> /\ Head(src.markers).kind = "Exif"

Adjust ==
  LET adjusted == IF transpose_it THEN TransposedParameters(Parameters) ELSE Parameters
  IN /\ phase = "adjust"
     /\ IF src.reused
        THEN phase' = "quant table mismatch" /\ UNCHANGED <<src, dst>>
        ELSE IF opt.gray /\ ~ grayscale
        THEN phase' = "not implemented" /\ UNCHANGED <<src, dst>>
        ELSE /\ phase' = "write"
             /\ dst' = [adjusted EXCEPT !.jfif = @ /\ ~ LeadingExif]
             /\ src' = IF LeadingExif /\ <<info.w, info.h>> # <<src.w, src.h>>
                       THEN [src EXCEPT !.markers[1] =
                               adjust_exif_parameters(@, info.w, info.h)]
                       ELSE src
     /\ UNCHANGED <<opt, info, coefs, work, out>>

\* jpeg_write_coefficients() writes the start of the file.
WriteCoefficients ==
  /\ phase = "write"
  /\ out' = (IF dst.jfif THEN <<Marker("JFIF")>> ELSE <<>>)
              \o (IF dst.adobe THEN <<Marker("Adobe")>> ELSE <<>>)
  /\ phase' = "markers"
  /\ UNCHANGED <<src, opt, info, coefs, work, dst>>

CopyAllMarkers ==                             \* a mutant: copies all that was saved
  /\ phase = "markers"
  /\ out' = out \o src.markers
  /\ phase' = "execute"
  /\ UNCHANGED <<src, opt, info, coefs, work, dst>>
CopyMarkers ==                                \* jcopy_markers_execute()
  /\ phase = "markers"
  /\ out' = out \o OfKind(src.markers,
                          {"Exif", "COM"} \union (IF dst.jfif THEN {} ELSE {"JFIF"})
                                          \union (IF dst.adobe THEN {} ELSE {"Adobe"}))
  /\ phase' = "execute"
  /\ UNCHANGED <<src, opt, info, coefs, work, dst>>

(***************************************************************************)
(* jtransform_execute_transform(). The arrays of the output are the        *)
(* workspace where there is one, otherwise those of the source.            *)
(***************************************************************************)
Place(ci) ==
  LET c == dst.comps[ci]
      width_in_blocks == jdiv_round_up(dst.w * c.h, max_h(dst.comps) * DCTSIZE)
      height_in_blocks == jdiv_round_up(dst.h * c.v, max_v(dst.comps) * DCTSIZE)
  IN [rows |-> jround_up(height_in_blocks, c.v),
      cols |-> IF transpose_it THEN jround_up(width_in_blocks, c.h) ELSE width_in_blocks,
      x |-> info.x * c.h, y |-> info.y * c.v,
      width |-> (full_width \div (max_h(dst.comps) * DCTSIZE)) * c.h,
      height |-> (full_height \div (max_v(dst.comps) * DCTSIZE)) * c.v]

Moved(array, g) ==
  CASE opt.transform = "NONE"       -> do_crop(array, g)
    [] opt.transform = "FLIP_H"     -> do_flip_h(array, g)
    [] opt.transform = "FLIP_V"     -> do_flip_v(array, g)
    [] opt.transform = "TRANSPOSE"  -> do_transpose(array, g)
    [] opt.transform = "TRANSVERSE" -> do_transverse(array, g)
    [] opt.transform = "ROT_90"     -> do_rot_90(array, g)
    [] opt.transform = "ROT_180"    -> do_rot_180(array, g)
    [] opt.transform = "ROT_270"    -> do_rot_270(array, g)

ExecuteTransform ==
  /\ phase = "execute"
  /\ phase' = "done"
  /\ IF opt.transform = "NONE" /\ info.x = 0 /\ info.y = 0
     THEN UNCHANGED <<coefs, work>>
     ELSE IF opt.transform = "FLIP_H" /\ info.y = 0
     THEN /\ coefs' = [ci \in DOMAIN coefs |->
                         IF ci \in DOMAIN dst.comps
                         THEN do_flip_h_no_crop(coefs[ci], Place(ci)) ELSE coefs[ci]]
          /\ UNCHANGED work
     ELSE /\ work' = [ci \in DOMAIN dst.comps |->
                        LET moved == Moved(coefs[ci], Place(ci))
                        IN [y \in DOMAIN work[ci] |-> [x \in DOMAIN work[ci][y] |->
                              BlockAt(moved, y, x)]]]
          /\ UNCHANGED coefs
  /\ UNCHANGED <<src, opt, info, dst, out>>

Next == \/ ParseSwitches \/ ReadHeader \/ RequestWorkspace \/ Adjust
        \/ WriteCoefficients \/ CopyMarkers \/ ExecuteTransform

Spec == Init /\ [][Next]_vars

-----------------------------------------------------------------------------
\* The program is at one of its steps, an error is final, the arrays are those
\* of the components there are.
TypeOK ==
  /\ phase \in {"start", "header", "request", "adjust", "write", "markers", "execute", "done",
                "usage", "imperfect", "bad crop", "quant table mismatch", "not implemented"}
  /\ Len(coefs) = Len(src.comps)
  /\ phase \in {"adjust", "write", "markers", "execute", "done"} => Len(work) \in {0, info.num}
  /\ phase \in {"write", "markers", "execute", "done"} => Len(dst.comps) = info.num

(***************************************************************************)
(* What the transformations mean, sample by sample. width and height are   *)
(* the whole iMCUs of the uncropped output: mirroring leaves what is       *)
(* beyond them in its place.                                               *)
(***************************************************************************)
Mirrored(z, whole) == IF z < whole THEN whole - 1 - z ELSE z
SourceOf(y, x, height, width) ==
  CASE opt.transform = "NONE"       -> <<y, x>>
    [] opt.transform = "FLIP_H"     -> <<y, Mirrored(x, width)>>
    [] opt.transform = "FLIP_V"     -> <<Mirrored(y, height), x>>
    [] opt.transform = "TRANSPOSE"  -> <<x, y>>
    [] opt.transform = "TRANSVERSE" -> <<Mirrored(x, width), Mirrored(y, height)>>
    [] opt.transform = "ROT_90"     -> <<Mirrored(x, width), y>>
    [] opt.transform = "ROT_180"    -> <<Mirrored(y, height), Mirrored(x, width)>>
    [] opt.transform = "ROT_270"    -> <<x, Mirrored(y, height)>>

\* The inverse DCT of a block with two rows and columns.
Sample(block, quant, u, v) ==
  LET Term(i, j) == quant[i][j] * block[i][j]
                      * (IF i * u = 1 THEN -1 ELSE 1) * (IF j * v = 1 THEN -1 ELSE 1)
  IN Term(0, 0) + Term(0, 1) + Term(1, 0) + Term(1, 1)
SampleOf(array, quant, at) ==
  Sample(BlockAt(array, at[1] \div DCTSIZE, at[2] \div DCTSIZE), quant,
         at[1] % DCTSIZE, at[2] % DCTSIZE)

SamplesHigh(s, c) == jdiv_round_up(s.h * c.v, max_v(s.comps))
SamplesWide(s, c) == jdiv_round_up(s.w * c.h, max_h(s.comps))

\* jpegtran.1 and the comments of the do_ routines: every sample of the output
\* is the sample of the source that the rotation, mirroring and cropping put
\* there, exactly, and never one of the padding at the edge of the source: for
\* all sampling factors, in place or by way of the workspace, with quantization
\* tables that are transposed with the picture.
EverySampleInPlace ==
  phase = "done" =>
    \A ci \in DOMAIN dst.comps :
      LET c == dst.comps[ci]
          output == IF work # <<>> THEN work[ci] ELSE coefs[ci]
          original == SourceArray(src, ci)
          shown == IF info.num = 1 THEN [h |-> max_h(src.comps), v |-> max_v(src.comps)]
                   ELSE src.comps[ci]
          g == Place(ci)
      IN \A y \in 0 .. SamplesHigh(dst, c) - 1, x \in 0 .. SamplesWide(dst, c) - 1 :
           LET at == SourceOf(y + g.y * DCTSIZE, x + g.x * DCTSIZE,
                              g.height * DCTSIZE, g.width * DCTSIZE)
           IN /\ at[1] < SamplesHigh(src, shown) /\ at[2] < SamplesWide(src, shown)
              /\ SampleOf(output, dst.quant[c.q], <<y, x>>)
                   = SampleOf(original, QuantTable[c.q], at)

\* transupp.h: -perfect and -trim leave no strip at the right or at the bottom
\* that is not mirrored with the rest, unless nothing but the strip is there.
NoStripIsLeft ==
  LET Clean(size, offset, full, imcu) ==
        size < imcu \/ offset * imcu + size <= (full \div imcu) * imcu
  IN phase = "done" /\ (opt.perfect \/ opt.trim) =>
       /\ opt.transform \in MirrorsRight =>
            Clean(dst.w, info.x, full_width, iMCU_sample_width)
       /\ opt.transform \in MirrorsBottom =>
            Clean(dst.h, info.y, full_height, iMCU_sample_height)

\* transupp.h: the crop region is enlarged to the left and upwards, to where an
\* iMCU begins, its lower right corner stays: the output shows the region that
\* was asked for and less than an iMCU more, unless an edge is trimmed or the
\* size is forced.
CropShowsRegion ==
  LET Shows(region, extent, size, offset, imcu, trims) ==
        LET first == offset * imcu
        IN /\ first <= region.start /\ region.start < first + imcu
           /\ extent # "FORCE" =>
                 \/ first + size = region.start + region.wanted
                 \/ trims /\ first + size > region.start + region.wanted - imcu
           /\ extent = "FORCE" /\ ~ trims => size = region.wanted
      asked == jtransform_parse_crop_spec(opt.crop)
  IN phase = "done" /\ opt.crop # <<>> =>
       /\ Shows(info.region.x, asked.w.set, dst.w, info.x, iMCU_sample_width,
                opt.trim /\ opt.transform \in MirrorsRight)
       /\ Shows(info.region.y, asked.h.set, dst.h, info.y, iMCU_sample_height,
                opt.trim /\ opt.transform \in MirrorsBottom)

Others(markers) == OfKind(markers, {"Exif", "COM"})

\* jcopy_markers_execute() and the comments in it: the output has no JFIF or Adobe
\* marker twice that the source did not have twice, keeps every other marker that
\* was to be copied in its order, has nothing ahead of a leading Exif segment but
\* what the color space needs; and where that segment names the size of the
\* picture, it names the size of the new one.
MarkersAreCoherent ==
  phase = "done" =>
    /\ \A kind \in {"JFIF", "Adobe"} :
         Len(OfKind(out, {kind})) \in {1, Len(OfKind(src.markers, {kind}))}
    /\ Others(out) = Others(src.markers)
    /\ LeadingExif =>
         LET m == Head(Others(out)) IN
         /\ ~ dst.jfif
         /\ <<info.w, info.h>> # <<src.w, src.h>> /\ m.parses /\ Len(m.sub) > 1 =>
              \A k \in 1 .. m.fits :
                /\ m.sub[k].tag = "ExifImageWidth" => m.sub[k].value = dst.w
                /\ m.sub[k].tag = "ExifImageHeight" => m.sub[k].value = dst.h
=============================================================================

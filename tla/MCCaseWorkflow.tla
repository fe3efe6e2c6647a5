--------------------------- MODULE MCCaseWorkflow ---------------------------
(* CaseWorkflow with the two assets that processing attaches (the ingested *)
(* raster and the change mask derived from it) and assets that custody     *)
(* must refuse: a copy, an orphan, a mask of another raster, wrong bytes,  *)
(* one of another case.  What is read for a verification is whole, damaged *)
(* in one place, or lacks an asset.                                        *)
EXTENDS CaseWorkflow, TLC

RasterAndMask ==
  {Asset("raster", "c", "h1", NoOne, "h1", "h1"), Asset("mask", "c", "h2", "raster", "h1", "h2")}

OfferedEvidence ==
  RasterAndMask \cup
  {Asset("copy", "c", "h1", NoOne, "h1", "h1"),
   Asset("orphan", "c", "h3", "lost", "h1", "h3"),
   Asset("mislinked", "c", "h4", "raster", "h9", "h4"),
   Asset("corrupt", "c", "h5", NoOne, "h5", "h6"),
   Asset("foreign", "d", "h7", NoOne, "h7", "h7")}

ReadContents ==
  LET whole == "raster" :> "h1" @@ "mask" :> "h2" IN
  {whole, [whole EXCEPT !["raster"] = "h8"], [whole EXCEPT !["mask"] = "h1"], "raster" :> "h1"}
=============================================================================

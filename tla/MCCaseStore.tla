---------------------------- MODULE MCCaseStore -----------------------------
(* CaseStore with the two assets that processing attaches.  Their files    *)
(* are read whole, one is damaged, or one cannot be read.                  *)
EXTENDS CaseStore, TLC

RasterAndMask ==
  <<Asset("raster", "c", "h1", NoOne, "h1", "h1"), Asset("mask", "c", "h2", "raster", "h1", "h2")>>
FilesRead ==
  LET whole == "raster" :> "h1" @@ "mask" :> "h2" IN
  {whole, [whole EXCEPT !["raster"] = "h8"], [whole EXCEPT !["mask"] = "h8"], "raster" :> "h1"}
RasterAndMaskSet == {RasterAndMask[1], RasterAndMask[2]}
=============================================================================

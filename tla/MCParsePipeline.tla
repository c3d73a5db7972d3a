--------------------------- MODULE MCParsePipeline ---------------------------
(***************************************************************************)
(* An instance of ParsePipeline for TLC: the route of a PDF (mineru,       *)
(* docling, ocr) with docling disabled and endpoints for the others, so    *)
(* that it may answer at once, later or not at all.                        *)
(***************************************************************************)
EXTENDS ParsePipeline

MCRoute == <<"http", "absent", "http">>
=============================================================================

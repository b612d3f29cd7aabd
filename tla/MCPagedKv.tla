----------------------------- MODULE MCPagedKv ------------------------------
(* The paged KV cache on a small instance, and the address buffers that the *)
(* fused graphs keep beside it. MCPagedKv.cfg gives the cache two sessions  *)
(* and three blocks of two positions, so that a table grows over a          *)
(* boundary, both sessions compete for the last block, and truncations free *)
(* blocks in an order that later allocations see. The graphs have three     *)
(* blocks of one position, so that a rewound session gets other blocks than *)
(* it had, and a buffer of two entries that has to grow.  Qwen's graph,     *)
(* which reads other slots than the session's own, has two blocks, and a    *)
(* variable of its own for what it misread.                                 *)
EXTENDS GraphBases, TLC

CONSTANT Off

VARIABLES
  part,  \* which of the parts below the behaviour is of
  g_free_list, g_is_free, g_in_use, g_blocks, g_token_count, g_slab, g_fault,
  w_misread  \* what the watermark of Qwen's graph misread

tableVars == <<free_list, is_free, in_use, blocks, token_count, slab, fault>>
runnerVars == <<g_free_list, g_is_free, g_in_use, g_blocks, g_token_count, g_slab, g_fault,
                alive, next_pos, graphVars, graph, call, misread, w_misread>>

(* A part that is not under way holds nothing, and attends to nothing.      *)
NoTable ==
  Init

NoGraph ==
  /\ g_free_list = Off /\ g_is_free = Off /\ g_in_use = Off /\ g_blocks = Off
  /\ g_token_count = Off /\ g_slab = Off /\ g_fault = Off /\ alive = Off /\ next_pos = Off
  /\ bases = Off /\ stride = Off /\ last_session = Off /\ last_seq = Off /\ graph = Off
  /\ call = Off /\ misread = {} /\ w_misread = Off

(* The parts, each with its constants.                                      *)
Steps == INSTANCE GraphBases WITH
  Entry <- {}, TotalBlocks <- 3, TokensPerBlock <- 1, Watermark <- FALSE,
  BatchAppend <- FALSE, MinStride <- 2, MaxStride <- 4,
  free_list <- g_free_list, is_free <- g_is_free,
  in_use <- g_in_use, blocks <- g_blocks, token_count <- g_token_count, slab <- g_slab,
  fault <- g_fault
Prefills == INSTANCE GraphBases WITH
  Entry <- {}, TotalBlocks <- 3, TokensPerBlock <- 1, Watermark <- FALSE,
  BatchAppend <- TRUE, MinStride <- 2, MaxStride <- 4,
  free_list <- g_free_list, is_free <- g_is_free,
  in_use <- g_in_use, blocks <- g_blocks, token_count <- g_token_count, slab <- g_slab,
  fault <- g_fault
Watermarked == INSTANCE GraphBases WITH
  Entry <- {}, TotalBlocks <- 2, TokensPerBlock <- 1, Watermark <- TRUE,
  BatchAppend <- TRUE, MinStride <- 2, MaxStride <- 2,
  free_list <- g_free_list, is_free <- g_is_free,
  in_use <- g_in_use, blocks <- g_blocks, token_count <- g_token_count, slab <- g_slab,
  fault <- g_fault, misread <- w_misread

ASSUME PartsAssumption ==
  /\ GraphAssumption
  /\ Steps!GraphAssumption
  /\ Prefills!GraphAssumption
  /\ Watermarked!GraphAssumption

PartsInit ==
  \/ part = "cache" /\ Init /\ NoGraph
  \/ part = "graph_steps" /\ Steps!GraphInit /\ NoTable /\ w_misread = Off
  \/ part = "graph_prefills" /\ Prefills!GraphInit /\ NoTable /\ w_misread = Off
  \/ part = "graph_watermark" /\ Watermarked!GraphInit /\ NoTable /\ misread = {}

PartsNext ==
  \/ part = "cache" /\ Next /\ UNCHANGED <<part, runnerVars>>
  \/ part = "graph_steps" /\ Steps!GraphNext /\ UNCHANGED <<part, tableVars, w_misread>>
  \/ part = "graph_prefills" /\ Prefills!GraphNext /\ UNCHANGED <<part, tableVars, w_misread>>
  \/ part = "graph_watermark" /\ Watermarked!GraphNext /\ UNCHANGED <<part, tableVars, misread>>

PartsSpec == PartsInit /\ [][PartsNext]_<<part, tableVars, runnerVars>>
==============================================================================

--------------------------- MODULE MCAsyncTask ---------------------------
(* Instances of AsyncTask for TLC.                                         *)
EXTENDS AsyncTask, TLC

CONSTANTS r1, r2

RequestSymmetry == Permutations(Requests)

\* The tick works through its snapshot newest task first: the poll task stands
\* before the pipeline, and the callback task is last.
OnePipeline == <<"pipeline">>
OneOfEachKind == <<"callback", "pipeline", "poll">>
=============================================================================

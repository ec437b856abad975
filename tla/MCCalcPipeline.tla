--------------------------- MODULE MCCalcPipeline ---------------------------
EXTENDS CalcPipeline
Whole(op, v) == <<Open(op), Close(v)>>
AllLines ==
  { <<>>, Whole("add", 2), Whole("mul", 3), Whole("pow", 1), Whole("none", 1),
    <<Open("set")>>, <<Close(5)>>, <<Close(1), Open("sub")>>, <<Null>>,
    Whole("add", 1) \o Whole("add", 2) }
=============================================================================

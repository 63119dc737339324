-------------------------- MODULE MCBrowserSession --------------------------
(* Event sequences for TLC: a stream that ends well, refusals before and   *)
(* after a stage, an expired token, and a pipeline that dies midway.       *)
EXTENDS BrowserSession

MCProgress == {"guard", "inference"}

MCScripts ==
    {<<"guard", "inference", "answer">>, <<"guard", "blocked">>, <<"error">>,
     <<"unauthorized">>, <<"guard">>}
=============================================================================

--------------------------- MODULE MCUiEventLoop ---------------------------
(* Instances of UiEventLoop for TLC: what the producers send. *)
EXTENDS UiEventLoop

In(q, k) == [queue |-> q, kind |-> k]

\* Prompts from the browser and the relay, triggered turns, aborts, answers to
\* approvals, the import that wants the same card, and updates that are shown.
MCInputs == {In("command", "submit"), In("command", "abort"), In("command", "resolve"),
             In("command", "import"), In("relay_prompt", "submit"), In("relay_abort", "abort"),
             In("relay_resolve", "resolve"), In("main_run", "other"), In("feed", "update")}

\* A few of them, and what is only passed on.
MCUpdates == {In("feed", "update"), In("command", "submit"), In("relay_model", "other"),
              In("relay_abort", "abort"), In("relay_prompt", "other"), In("command", "other")}
=============================================================================

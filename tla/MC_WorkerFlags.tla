--------------------------- MODULE MC_WorkerFlags ---------------------------
(* Command lines of up to three units: the worker's flags with one dash and *)
(* with two, values inline and apart, flags that are not the worker's.      *)
EXTENDS WorkerFlags

MCWords == {"http", "http-addr", "unix", "log-level", "log-format", "log-logger",
            "loopback", "info", "debug", "text", "loud", "true", "false", "sock", "cache-key"}

Flag(d, n, v) == [dashes |-> d, name |-> n, inline |-> v]
Apart(d, n, v) == [tokens |-> <<Flag(d, n, NoInline), v>>, name |-> n, value |-> v]
Inline(d, n, v) == [tokens |-> <<Flag(d, n, v)>>, name |-> n, value |-> Word(v)]
Ignored(tokens) == [tokens |-> tokens, name |-> NoWord, value |-> Word(NoWord)]

Known == {[tokens |-> <<Flag(2, "http", NoInline)>>, name |-> "http", value |-> Word("true")],
          Inline(1, "http", "false"), Inline(2, "unix", "sock"), Inline(2, "unix", NoWord),
          Apart(2, "unix", Word("sock")), Apart(1, "unix", Word(NoWord)),
          Apart(2, "http-addr", Flag(2, "http", NoInline)),   \* a value that looks like a flag
          Apart(2, "log-level", Word("debug")), Inline(2, "log-level", "loud"),
          Apart(1, "log-format", Word("loud"))}

NotOurs == {Ignored(<<Flag(2, "cache-key", NoInline)>>), Ignored(<<Flag(3, "cache-key", "sock")>>),
            Ignored(<<Flag(1, "cache-key", NoInline), Word("sock")>>),
            Ignored(<<Word("http")>>), Ignored(<<Flag(2, NoWord, NoInline)>>)}

\* No value, three dashes, values that are none.
IllFormed == {Ignored(<<Flag(2, "unix", NoInline)>>), Ignored(<<Flag(3, "http", NoInline)>>),
              Ignored(<<Flag(2, "http", "loud")>>), Ignored(<<Flag(2, "http", NoWord)>>)}

MCLines == SeqOf(Known \cup NotOurs \cup IllFormed, 3)
=============================================================================

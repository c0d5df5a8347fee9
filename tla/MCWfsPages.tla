----------------------------- MODULE MCWfsPages -----------------------------
(***************************************************************************)
(* Small servers and options for WfsPages.                                 *)
(***************************************************************************)
EXTENDS WfsPages

\* WFS 2.0 servers of every kind; a WFS 1.x server has no links, no count and no paging.
\* Whether paging is transaction-safe matters only where the data changes, which the
\* servers with a limit need not do.
AllServers ==
    {s \in [is_2: {TRUE}, paging: BOOLEAN, links: BOOLEAN, matched: BOOLEAN, safe: BOOLEAN,
            count_default: {Unknown, 3}, limit: {Unknown, 1}, changes: {0, 2}] :
        IF s.changes = 0 THEN ~s.safe ELSE s.limit = Unknown /\ s.count_default = Unknown /\ s.matched}
    \cup [is_2: {FALSE}, paging: {FALSE}, links: {FALSE}, matched: {FALSE}, safe: {FALSE},
          count_default: {Unknown}, limit: {Unknown, 1}, changes: {0}]

Strategies == {"None", "NextLink", "StartIndex", "VendorStartIndex", "SpatialTiling", "Single"}

\* A forced offset strategy carries a page size.
AllOptions ==
    {o \in [strategy: Strategies, page_size: {Unknown, 2}, max_retries: {1},
            concurrency: {1, 2, 3}, dedupe: {FALSE}] :
        /\ o.strategy \in {"StartIndex", "VendorStartIndex"} => o.page_size # Unknown
        /\ o.concurrency = 3 => o.strategy = "None"}
    \cup [strategy: {"None"}, page_size: {2}, max_retries: {1}, concurrency: {1}, dedupe: {TRUE}]
=============================================================================

---------------------------- MODULE MCMcpAdapter ----------------------------
EXTENDS McpAdapter

Line(kind, request, valid, notification) ==
    [kind |-> kind, request |-> request, valid |-> valid, notification |-> notification]

MCRequests == {"launch", "type", "list", "compare", "cancel"}
MCToolOf == [launch |-> "mobile_launch_app", type |-> "mobile_input_unicode_text",
             list |-> "mobile_list_tasks", compare |-> "mobile_compare_device_performance",
             cancel |-> "mobile_cancel_task"]
MCScript == {Line("initialize", NoRequest, TRUE, FALSE),
             Line("initialized", NoRequest, TRUE, TRUE),
             Line("ping", NoRequest, TRUE, FALSE),
             Line("list", NoRequest, TRUE, FALSE),
             Line("call", "launch", FALSE, FALSE),
             Line("call", "type", TRUE, TRUE)}
            \cup {Line("call", r, TRUE, FALSE) : r \in MCRequests}
=============================================================================

----------------------------- MODULE MCDispatch -----------------------------
EXTENDS DispatchExport

CONSTANTS lease, rower, deep, events, p1, p2, p3, RowLimit

Read(src, name) == [src |-> src, name |-> name]

\* The flow of the export consumer (DummyConsumer.flows).
ExportFlow ==
  [reads |-> <<Read("source", "hidden"), Read("meta", "request_meta")>>, key |-> "step",
   background |-> TRUE, stride |-> Stride, cap |-> RowLimit, firstPerPrompt |-> FALSE]

\* That of the ESamp consumer with a model bank of three slots (ESampConsumer.flows).
LeaseFlow ==
  [reads |-> <<Read("source", "source"), Read("target", "target"),
               Read("meta", "request_meta")>>,
   key |-> "step", background |-> FALSE, stride |-> 1, cap |-> 3, firstPerPrompt |-> TRUE]

\* Flows of a consumer that reads a layer row by row, and one request at a time.
RowFlow ==
  [reads |-> <<Read("source", "hidden"), Read("meta", "meta")>>, key |-> "row",
   background |-> FALSE, stride |-> 2, cap |-> 0, firstPerPrompt |-> FALSE]
RequestFlow ==
  [reads |-> <<Read("meta", "meta"), Read("source", "hidden")>>, key |-> "request",
   background |-> TRUE, stride |-> 1, cap |-> 0, firstPerPrompt |-> FALSE]

\* A flow that reads a layer the configuration has no path for.
DeepFlow == [ExportFlow EXCEPT !.reads = <<Read("middle", "hidden")>>]

Sub(event, layer, capture) ==
  [event |-> event, phase |-> "decode", layer |-> layer, capture |-> capture]

MCConsumers == {Exporter, lease, rower, deep, events}
OnlyExporter == {Exporter}
MCFlows ==
  [c \in Consumers |-> CASE c = Exporter -> <<ExportFlow>>
                         [] c = lease -> <<LeaseFlow>>
                         [] c = rower -> <<RowFlow, RequestFlow>>
                         [] c = deep -> <<DeepFlow>>
                         [] OTHER -> <<>>]
MCSubs ==
  [c \in Consumers |->
     IF c # events THEN <<>>
     ELSE <<Sub("layer.post", "any", "prefer"), Sub("layer.post", "layers.3", "never"),
            Sub("execute_model.post", "any", "prefer"),
            Sub("prepare_inputs.post", "any", "required"),
            Sub("load_model.post", "any", "never")>>]
MCPaths == [s \in {"source", "target"} |-> IF s = "source" THEN "layers.0" ELSE "layers.3"]
MCBatches == {<<>>, <<p1>>, <<None, None>>, <<p1, p1, p2>>, <<p1, None, p2>>,
              <<p1, p2, p2, p3>>, <<p1, p2, p2, p2, p1>>}
=============================================================================

----------------------------- MODULE MCObserver -----------------------------
(* Values for the constants of Observer. *)
EXTENDS Observer

Matlab(limit) == [class |-> "MatlabFilter", limit |-> limit]
Decimate(delay) == [class |-> "DecimateFilter", limit |-> delay]
CSV == [class |-> "CSVFilter", limit |-> 0]
Stdout == [class |-> "StdoutFilter", limit |-> 0]

\* the example of xmlobserver.md, with a second Matlab filter in place of the CSV filter
MCFilters == <<Matlab(4), Decimate(2), Matlab(3)>>
MCCSVFilters == <<CSV>>

\* what OutputDecimation and not Quiet add
MCDefaultFilters == <<Decimate(3), Stdout>>

\* two observed two ports; the half cell is the second one
MCRows == [SpannungVec |-> {1, 2}, AnodeVoltageVec |-> {2}]
=============================================================================

---------------------------- MODULE MCPerfRing ----------------------------
EXTENDS PerfRing

PEBS_SAMPLE_TYPE == {"IP", "TID", "ADDR", "ID", "CALLCHAIN", "CPU"}
BP_SAMPLE_TYPE == {"IP", "TID", "ADDR", "CALLCHAIN", "CPU"}
EBS_SAMPLE_TYPE == {"IP", "TID", "TIME", "CPU", "PERIOD"}
DeviceSampleTypes == {PEBS_SAMPLE_TYPE, BP_SAMPLE_TYPE, EBS_SAMPLE_TYPE}
===========================================================================

\* Up to three runs of the provisioning step and three failing calls: enough
\* for a call to fail half-way, the next to fail in its Director retries,
\* and a third to succeed over the secrets the first left behind.
SPECIFICATION Spec
CONSTANTS MaxCalls = 3  MaxFaults = 3
\* The step stops being run once it has succeeded or its runs are used up.
CHECK_DEADLOCK FALSE
INVARIANT ConfiguredWithOwnToken

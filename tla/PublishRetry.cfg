\* A publish job is retried.
SPECIFICATION Spec
CONSTANTS
    Pipelines = {4, 5}
    Released = {1, 2, 3}
    Protected = {1}
    Keep = 3
    MaxFaults = 2
PROPERTY OkIsAdvertised
